---------------------------- MODULE Spec2Model ----------------------------
(***************************************************************************)
(* Model of the Alertmanager -> Statuspage bridge:                         *)
(*   alert.py      severity aggregation (pure functions)                   *)
(*   statuspage.py the REST client (requests it sends, results it returns) *)
(*   app.py        handle_alert, the incident reconciliation               *)
(*                                                                         *)
(* Python values are modelled as follows.  A dict is a function whose      *)
(* DOMAIN is its key set; d.get(k, default) is Get(d, k, default).  None   *)
(* is the value None.  A list is a sequence.  A string built by join or    *)
(* by a template is the sequence of its pieces.                            *)
(***************************************************************************)
EXTENDS Integers, Sequences, FiniteSets, TLC

VARIABLES
    \* ---- get_max_by_order applied to a list of hint values
    values,        \* the list passed to get_max_by_order
    dim,           \* which dimension's (order, default) pair is used
    result,        \* what get_max_by_order returned, NotCalled before the call
    prev_result,   \* the result for the list before a value was added
    added,         \* the value that was added to the list
    \* ---- the aggregator applied to a batch of alerts
    alerts,        \* the batch (payload["alerts"])
    severity,      \* calculate_severity(alerts), NotCalled before the call
    summary,       \* build_summary(alerts)
    component_name, \* get_component_name(alerts)
    \* ---- the webhook handler and the remote status page
    API_KEY,       \* app.API_KEY, read from the environment at import
    pc,            \* per handler: the remote call handle_alert makes next
    locals,        \* per handler: the local variables of handle_alert
    calls,         \* per handler: the client calls made for the request
    raised,        \* per handler: the exception the outer try caught
    response,      \* per handler: the (body, status code) returned
    incidents,     \* the remote store: every incident of the page
    next_id,       \* the remote store: how many incidents were created
    \* ---- requests served one after the other
    previous,      \* the request served before the current one
    \* ---- the lookup applied to a list of unresolved incidents
    unresolved,    \* what get_unresolved_incidents returned
    wanted,        \* the component_id looked for
    found          \* whether the lookup was made, and what it returned

aggVars == <<alerts, severity, summary, component_name>>
rankVars == <<values, dim, result, prev_result, added>>
handlerVars == <<API_KEY, pc, locals, calls, raised, response>>
storeVars == <<incidents, next_id>>
historyVars == <<previous>>
lookupVars == <<unresolved, wanted, found>>

vars == <<rankVars, aggVars, handlerVars, storeVars, historyVars, lookupVars>>

-----------------------------------------------------------------------------
(* Bounds of the model *)

\* longest list of hint values drawn for get_max_by_order
MaxLen == 3
\* longest batch of alerts drawn for the aggregator
MaxAlerts == 2
\* longest batch of alerts in a webhook payload
MaxBatch == 2
\* most incidents the remote store ever holds
MaxIncidents == 2

-----------------------------------------------------------------------------
(* Python helpers *)

None == "<None>"
NotCalled == "<not called>"

\* dict.get(key, default)
Get(d, k, default) == IF k \in DOMAIN d THEN d[k] ELSE default

Range(s) == {s[i] : i \in DOMAIN s}

\* list.index(x): position of the first occurrence, 0-based as in Python
IndexOf(order, x) == (CHOOSE i \in DOMAIN order :
                         /\ order[i] = x
                         /\ \A j \in DOMAIN order : order[j] = x => i <= j) - 1

\* all sequences over S of length at most n
BSeq(S, n) == UNION {[1..k -> S] : k \in 0..n}

\* str.lower() on the strings of the model: the strings that hold an
\* upper-case letter are listed, every other string is already lower case
Lower(s) ==
    CASE s = "MAJOR"        -> "major"
      [] s = "Minor"        -> "minor"
      [] s = "CRITICAL"     -> "critical"
      [] s = "Monitoring"   -> "monitoring"
      [] s = "Identified"   -> "identified"
      [] s = "MAJOR_OUTAGE" -> "major_outage"
      [] s = "Bogus"        -> "bogus"
      [] OTHER              -> s

-----------------------------------------------------------------------------
(* alert.py *)

IMPACT_ORDER == <<"none", "maintenance", "minor", "major", "critical">>
COMPONENT_STATUS_ORDER == <<"operational", "under_maintenance",
                            "degraded_performance", "partial_outage",
                            "major_outage">>

\* the order without "resolved": a status hint could not close an incident
STATUS_ORDER_open_only == <<"investigating", "identified", "monitoring">>

STATUS_ORDER == <<"investigating", "identified", "monitoring", "resolved">>

\* The loop of get_max_by_order over values[i..]: the pair
\* <<max_index, max_value>> after the remaining values are visited.
RECURSIVE MaxLoop(_, _, _, _, _)
MaxLoop(vals, order, i, max_index, max_value) ==
    IF i > Len(vals) THEN <<max_index, max_value>>
    ELSE LET value_lower == Lower(vals[i]) IN
         IF value_lower \in Range(order)
         THEN LET index == IndexOf(order, value_lower) IN
              IF index > max_index
              THEN MaxLoop(vals, order, i + 1, index, value_lower)
              ELSE MaxLoop(vals, order, i + 1, max_index, max_value)
         ELSE MaxLoop(vals, order, i + 1, max_index, max_value)

\* get_max_by_order keeping the value as written (max_value = value)
\* instead of its lower-cased form
RECURSIVE MaxLoopAsWritten(_, _, _, _, _)
MaxLoopAsWritten(vals, order, i, max_index, max_value) ==
    IF i > Len(vals) THEN <<max_index, max_value>>
    ELSE LET value_lower == Lower(vals[i]) IN
         IF value_lower \in Range(order)
         THEN LET index == IndexOf(order, value_lower) IN
              IF index > max_index
              THEN MaxLoopAsWritten(vals, order, i + 1, index, vals[i])
              ELSE MaxLoopAsWritten(vals, order, i + 1, max_index, max_value)
         ELSE MaxLoopAsWritten(vals, order, i + 1, max_index, max_value)

get_max_by_order_as_written(vals, order, default) ==
    IF vals = <<>> THEN default
    ELSE LET r == MaxLoopAsWritten(vals, order, 1, -1, default) IN
         IF r[1] >= 0 THEN r[2] ELSE default

\* get_max_by_order with a value that is not in the order ranked lowest
\* (index 0) instead of being skipped
RECURSIVE MaxLoopUnknownLowest(_, _, _, _, _)
MaxLoopUnknownLowest(vals, order, i, max_index, max_value) ==
    IF i > Len(vals) THEN <<max_index, max_value>>
    ELSE LET value_lower == Lower(vals[i])
             index == IF value_lower \in Range(order)
                      THEN IndexOf(order, value_lower) ELSE 0
         IN IF index > max_index
            THEN MaxLoopUnknownLowest(vals, order, i + 1, index, value_lower)
            ELSE MaxLoopUnknownLowest(vals, order, i + 1, max_index, max_value)

get_max_by_order_unknown_lowest(vals, order, default) ==
    IF vals = <<>> THEN default
    ELSE LET r == MaxLoopUnknownLowest(vals, order, 1, -1, default) IN
         IF r[1] >= 0 THEN r[2] ELSE default

get_max_by_order(vals, order, default) ==
    IF vals = <<>> THEN default
    ELSE LET r == MaxLoop(vals, order, 1, -1, default) IN
         IF r[1] >= 0 THEN r[2] ELSE default

\* get_firing_alerts without its filter
get_firing_alerts_unfiltered(as) == as

\* [a for a in alerts if a.get("status") == "firing"]
get_firing_alerts(as) ==
    SelectSeq(as, LAMBDA a : Get(a, "status", None) = "firing")

Annotations(a) == Get(a, "annotations", <<>>)

\* [f(a) for a in as]
MapSeq(as, f(_)) == [i \in DOMAIN as |-> f(as[i])]

\* Python truth value of a string
Truthy(s) == s /= None /\ s /= ""

\* calculate_severity with status and impact taken from the firing alerts
\* only, as the component status is
calculate_severity_all_from_firing(as) ==
    LET firing_alerts == get_firing_alerts(as)
        statuses == MapSeq(firing_alerts, LAMBDA a :
                        Get(Annotations(a), "statuspageStatus", "identified"))
        impacts == MapSeq(firing_alerts, LAMBDA a :
                        Get(Annotations(a), "statuspageImpactOverride", "none"))
        component_statuses ==
            MapSeq(SelectSeq(firing_alerts, LAMBDA a :
                       Truthy(Get(Annotations(a), "statuspageComponentStatus", None))),
                   LAMBDA a : Get(Annotations(a), "statuspageComponentStatus", ""))
    IN [status |-> get_max_by_order(statuses, STATUS_ORDER, "identified"),
        impact_override |-> get_max_by_order(impacts, IMPACT_ORDER, "none"),
        component_status |-> get_max_by_order(component_statuses,
                                 COMPONENT_STATUS_ORDER, "partial_outage")]

\* calculate_severity handing get_max_by_order the "" of the .get as the
\* default of the component status
calculate_severity_empty_default(as) ==
    LET firing_alerts == get_firing_alerts(as)
        statuses == MapSeq(as, LAMBDA a :
                        Get(Annotations(a), "statuspageStatus", "identified"))
        impacts == MapSeq(as, LAMBDA a :
                        Get(Annotations(a), "statuspageImpactOverride", "none"))
        component_statuses ==
            MapSeq(SelectSeq(firing_alerts, LAMBDA a :
                       Truthy(Get(Annotations(a), "statuspageComponentStatus", None))),
                   LAMBDA a : Get(Annotations(a), "statuspageComponentStatus", ""))
    IN [status |-> get_max_by_order(statuses, STATUS_ORDER, "identified"),
        impact_override |-> get_max_by_order(impacts, IMPACT_ORDER, "none"),
        component_status |-> get_max_by_order(component_statuses,
                                 COMPONENT_STATUS_ORDER, "")]

\* calculate_severity without the "identified" that .get gives an alert with
\* no status hint
calculate_severity_no_status_default(as) ==
    LET firing_alerts == get_firing_alerts(as)
        statuses == MapSeq(as, LAMBDA a :
                        Get(Annotations(a), "statuspageStatus", ""))
        impacts == MapSeq(as, LAMBDA a :
                        Get(Annotations(a), "statuspageImpactOverride", "none"))
        component_statuses ==
            MapSeq(SelectSeq(firing_alerts, LAMBDA a :
                       Truthy(Get(Annotations(a), "statuspageComponentStatus", None))),
                   LAMBDA a : Get(Annotations(a), "statuspageComponentStatus", ""))
    IN [status |-> get_max_by_order(statuses, STATUS_ORDER, "identified"),
        impact_override |-> get_max_by_order(impacts, IMPACT_ORDER, "none"),
        component_status |-> get_max_by_order(component_statuses,
                                 COMPONENT_STATUS_ORDER, "partial_outage")]

calculate_severity(as) ==
    LET firing_alerts == get_firing_alerts(as)
        statuses == MapSeq(as, LAMBDA a :
                        Get(Annotations(a), "statuspageStatus", "identified"))
        impacts == MapSeq(as, LAMBDA a :
                        Get(Annotations(a), "statuspageImpactOverride", "none"))
        component_statuses ==
            MapSeq(SelectSeq(firing_alerts, LAMBDA a :
                       Truthy(Get(Annotations(a), "statuspageComponentStatus", None))),
                   LAMBDA a : Get(Annotations(a), "statuspageComponentStatus", ""))
    IN [status |-> get_max_by_order(statuses, STATUS_ORDER, "identified"),
        impact_override |-> get_max_by_order(impacts, IMPACT_ORDER, "none"),
        component_status |-> get_max_by_order(component_statuses,
                                 COMPONENT_STATUS_ORDER, "partial_outage")]

\* The loop of build_summary: the list summaries after as[i..] are visited
RECURSIVE SummaryLoop(_, _, _)
SummaryLoop(as, i, summaries) ==
    IF i > Len(as) THEN summaries
    ELSE LET s == Get(Annotations(as[i]), "statuspageSummary", "") IN
         IF Truthy(s) /\ s \notin Range(summaries)
         THEN SummaryLoop(as, i + 1, Append(summaries, s))
         ELSE SummaryLoop(as, i + 1, summaries)

\* "\n".join(lines): the pieces of the joined string
RECURSIVE Join(_)
Join(lines) ==
    IF Len(lines) <= 1 THEN lines
    ELSE <<Head(lines), "\n">> \o Join(Tail(lines))

\* build_summary without the fallback: the join of no lines is the empty text
build_summary_no_fallback(as) ==
    Join(SummaryLoop(get_firing_alerts(as), 1, <<>>))

\* build_summary reading the summaries of every alert, firing or not
build_summary_of_all_alerts(as) ==
    LET summaries == SummaryLoop(as, 1, <<>>) IN
    IF summaries /= <<>> THEN Join(summaries)
    ELSE <<"Service experiencing issues">>

build_summary(as) ==
    LET summaries == SummaryLoop(get_firing_alerts(as), 1, <<>>) IN
    IF summaries /= <<>> THEN Join(summaries)
    ELSE <<"Service experiencing issues">>

RECURSIVE get_component_name_from(_, _)
get_component_name_from(as, i) ==
    IF i > Len(as) THEN "Service"
    ELSE LET name == Get(Annotations(as[i]), "statuspageComponentName", "") IN
         IF Truthy(name) THEN name ELSE get_component_name_from(as, i + 1)

\* get_component_name scanning the firing alerts only
get_component_name_of_firing(as) ==
    get_component_name_from(get_firing_alerts(as), 1)

get_component_name(as) == get_component_name_from(as, 1)

NoSeverity == [status |-> NotCalled, impact_override |-> NotCalled,
               component_status |-> NotCalled]

-----------------------------------------------------------------------------
(* statuspage.py: the client.  A request is the method, the path below     *)
(* base_url and the JSON body; a call either returns or raises.            *)

EmptyDict == [k \in {} |-> None]

\* Python truth value of a dict or of None; None is modelled as the
\* empty dict, which is as false
IsTrue(d) == DOMAIN d /= {}

NoError == [type |-> "", op |-> ""]

\* what a call can raise: raise_for_status (_check_response), the
\* session's request itself, and response.json()
ErrorTypes == {"HTTPError", "Timeout", "JSONDecodeError"}
MkError(t, o) == [type |-> t, op |-> o]

\* JSONDecodeError is a ValueError
IsValueError(e) == e.type \in {"JSONDecodeError", "ValueError"}

get_unresolved_incidents_request(page_id) ==
    [method |-> "GET",
     url |-> <<"pages", page_id, "incidents", "unresolved.json">>]

\* a listing of every incident of the page, the resolved ones included
UnresolvedListsAll(incs) == incs

\* the incidents of the page that unresolved.json lists
Unresolved(incs) == SelectSeq(incs, LAMBDA inc : inc.status /= "resolved")

\* the loop of find_incident_for_component over incs[i..]
RECURSIVE FindLoop(_, _, _)
FindLoop(incs, component_id, i) ==
    IF i > Len(incs) THEN EmptyDict
    ELSE LET components == Get(incs[i], "components", <<>>) IN
         IF \E j \in DOMAIN components :
                Get(components[j], "id", None) = component_id
         THEN incs[i]
         ELSE FindLoop(incs, component_id, i + 1)

\* find_incident_for_component returning the first unresolved incident of
\* the page, whatever components it affects
find_incident_ignoring_component(incs, component_id) ==
    IF incs = <<>> THEN EmptyDict ELSE incs[1]

\* find_incident_for_component looking at the first component of an
\* incident only
find_incident_by_first_component(incs, component_id) ==
    LET M == {i \in DOMAIN incs :
                 /\ Get(incs[i], "components", <<>>) /= <<>>
                 /\ Get(incs[i]["components"][1], "id", None) = component_id}
    IN IF M = {} THEN EmptyDict
       ELSE incs[CHOOSE i \in M : \A j \in M : i <= j]

\* find_incident_for_component on the list get_unresolved_incidents returned
find_incident_for_component(incs, component_id) ==
    FindLoop(incs, component_id, 1)

create_incident_request(page_id, component_id, title, body, status, impact_override, component_status) ==
    [method |-> "POST",
     url |-> <<"pages", page_id, "incidents.json">>,
     json |-> [incident |->
                 [name |-> title,
                  body |-> body,
                  status |-> status,
                  impact_override |-> impact_override,
                  component_ids |-> <<component_id>>,
                  components |-> [c \in {component_id} |-> component_status]]]]

update_incident_request(page_id, incident_id, component_id, body, status, impact_override, component_status) ==
    [method |-> "PATCH",
     url |-> <<"pages", page_id, "incidents", incident_id, ".json">>,
     json |-> [incident |->
                 [body |-> body,
                  status |-> status,
                  impact_override |-> impact_override,
                  components |-> [c \in {component_id} |-> component_status]]]]

\* resolve_incident without the component set to operational
resolve_incident_request_status_only(page_id, incident_id, component_id, body) ==
    [method |-> "PATCH",
     url |-> <<"pages", page_id, "incidents", incident_id, ".json">>,
     json |-> [incident |->
                 [status |-> "resolved",
                  body |-> IF body /= <<>> THEN body
                           ELSE <<"All alerts have been resolved.">>]]]

\* body is a sequence of pieces, the empty string the empty sequence
resolve_incident_request(page_id, incident_id, component_id, body) ==
    [method |-> "PATCH",
     url |-> <<"pages", page_id, "incidents", incident_id, ".json">>,
     json |-> [incident |->
                 [status |-> "resolved",
                  body |-> IF body /= <<>> THEN body
                           ELSE <<"All alerts have been resolved.">>,
                  components |-> [c \in {component_id} |-> "operational"]]]]

-----------------------------------------------------------------------------
(* The remote status page, as far as the client's requests show it: an     *)
(* incident is its id, its status and the components it affects.           *)

IncidentId(n) == <<"incident", n>>

\* a store that keeps one unresolved incident per component: it answers a
\* second POST for the component without adding an incident
StoreCreatedOncePerComponent(incs, n, req) ==
    IF \E j \in DOMAIN incs :
          /\ incs[j].status /= "resolved"
          /\ \E k \in DOMAIN incs[j].components :
                \E m \in DOMAIN req.json.incident.component_ids :
                    incs[j].components[k].id = req.json.incident.component_ids[m]
    THEN incs
    ELSE Append(incs,
                [id |-> IncidentId(n),
                 status |-> req.json.incident.status,
                 components |-> [j \in DOMAIN req.json.incident.component_ids |->
                                    [id |-> req.json.incident.component_ids[j]]]])

\* the store after it served a POST incidents.json
StoreCreated(incs, n, req) ==
    Append(incs,
           [id |-> IncidentId(n),
            status |-> req.json.incident.status,
            components |-> [j \in DOMAIN req.json.incident.component_ids |->
                               [id |-> req.json.incident.component_ids[j]]]])

\* the store after it served a PATCH incidents/<id>.json
StorePatched(incs, req) ==
    [j \in DOMAIN incs |->
        IF incs[j].id = req.url[4]
        THEN [incs[j] EXCEPT !.status = req.json.incident.status]
        ELSE incs[j]]

\* an open incident of the page that affects another component
OtherIncident == [id |-> IncidentId(0), status |-> "identified",
                  components |-> <<[id |-> "comp-other"]>>]

HasIncident(incs, incident_id) == \E j \in DOMAIN incs : incs[j].id = incident_id

-----------------------------------------------------------------------------
(* app.py *)

Handlers == {1, 2}

TITLE_TEMPLATE == <<"{component_name}", " - Incident">>
BODY_TEMPLATE == <<"{summary}">>

\* str.format on a template: the pieces with the fields substituted
RECURSIVE Format(_, _, _)
Format(template, summary_pieces, name) ==
    IF template = <<>> THEN <<>>
    ELSE (CASE Head(template) = "{summary}" -> summary_pieces
            [] Head(template) = "{component_name}" -> <<name>>
            [] OTHER -> <<Head(template)>>)
         \o Format(Tail(template), summary_pieces, name)

format_title(name) == Format(TITLE_TEMPLATE, <<>>, name)
format_body(summary_pieces, name) == Format(BODY_TEMPLATE, summary_pieces, name)

NoLocals == [page_id |-> None, component_id |-> None, alerts |-> <<>>,
             status |-> "", existing_incident |-> EmptyDict,
             severity |-> NoSeverity, title |-> <<>>, body |-> <<>>,
             create_error |-> NoError, existing |-> EmptyDict]

\* jsonify({"error": error}), code; the empty body has error ""
Response(error, code) == [error |-> error, code |-> code]
NoResponse == Response(NotCalled, 0)

\* the lookup was not made
NotFound == [called |-> FALSE, incident |-> EmptyDict]
LookupIdle == unresolved = <<>> /\ wanted = None /\ found = NotFound

\* no request was served yet
NoPrevious == [status |-> None, page_id |-> None, component_id |-> None,
               code |-> 0, ops |-> <<>>]

HandlerIdle ==
    /\ API_KEY = "test-api-key"
    /\ pc = [p \in Handlers |-> "idle"]
    /\ locals = [p \in Handlers |-> NoLocals]
    /\ calls = [p \in Handlers |-> <<>>]
    /\ raised = [p \in Handlers |-> NoError]
    /\ response = [p \in Handlers |-> NoResponse]
    /\ incidents = <<>>
    /\ next_id = 0
    /\ previous = NoPrevious
    /\ LookupIdle

-----------------------------------------------------------------------------
(* Inputs *)

\* a dict with the keys of ks whose value in r is not Absent
Absent == "<absent>"
MkDict(ks, r) == [k \in {x \in ks : r[x] /= Absent} |-> r[k]]

\* hint values handed to get_max_by_order: members of every order in
\* lower and mixed case, each dimension's default, and strings in no order
HintValues == {"none", "minor", "MAJOR", "identified", "Monitoring",
               "partial_outage", "major_outage", "bogus"}

Dims == {"status", "impact", "component_status"}

\* the (order, default) pair calculate_severity passes for a dimension
OrderOf(d) == CASE d = "status" -> STATUS_ORDER
                [] d = "impact" -> IMPACT_ORDER
                [] d = "component_status" -> COMPONENT_STATUS_ORDER
DefaultOf(d) == CASE d = "status" -> "identified"
                  [] d = "impact" -> "none"
                  [] d = "component_status" -> "partial_outage"

AggIdle == /\ alerts = <<>>
           /\ severity = NoSeverity
           /\ summary = <<>>
           /\ component_name = NotCalled

RankIdle == /\ values = <<>>
            /\ dim = "impact"
            /\ result = NotCalled
            /\ prev_result = NotCalled
            /\ added = NotCalled

-----------------------------------------------------------------------------
(* get_max_by_order on a list, and on the list with one more value *)

InitRankMax ==
    /\ values \in BSeq(HintValues, MaxLen)
    /\ dim \in Dims
    /\ result = NotCalled
    /\ prev_result = NotCalled
    /\ added = NotCalled
    /\ AggIdle
    /\ HandlerIdle

\* result = get_max_by_order(values, order, default)
CallGetMax ==
    /\ result = NotCalled
    /\ result' = get_max_by_order(values, OrderOf(dim), DefaultOf(dim))
    /\ UNCHANGED <<values, dim, prev_result, added>>
    /\ UNCHANGED <<aggVars, handlerVars, storeVars, historyVars, lookupVars>>

\* the same call on the list with v inserted at position i
CallGetMaxWith(i, v) ==
    /\ result /= NotCalled
    /\ prev_result = NotCalled
    /\ values' = SubSeq(values, 1, i - 1) \o <<v>> \o SubSeq(values, i, Len(values))
    /\ prev_result' = result
    /\ added' = v
    /\ result' = get_max_by_order(values', OrderOf(dim), DefaultOf(dim))
    /\ UNCHANGED dim
    /\ UNCHANGED <<aggVars, handlerVars, storeVars, historyVars, lookupVars>>

NextRankMax ==
    \/ CallGetMax
    \/ \E i \in 1..(Len(values) + 1), v \in HintValues : CallGetMaxWith(i, v)

SpecRankMax == InitRankMax /\ [][NextRankMax]_vars

-----------------------------------------------------------------------------
(* The aggregator on a batch, and on the batch with one alert edited *)

AnnotationKeys == {"statuspageStatus", "statuspageImpactOverride",
                   "statuspageComponentStatus", "statuspageSummary",
                   "statuspageComponentName"}

\* an alert with the given status and annotations (Absent: the key is missing)
MkAlert(st, ann) ==
    [k \in {"status", "annotations"} |->
        IF k = "status" THEN st
        ELSE MkDict(AnnotationKeys,
                    [x \in AnnotationKeys |-> Get(ann, x, Absent)])]

\* an alert with neither a status nor annotations
BareAlert == EmptyDict

\* alerts that differ in their status and their component-status hint
ComponentStatusHints == {Absent, "", "degraded_performance", "MAJOR_OUTAGE",
                         "bogus"}
AlertsCS ==
    {MkAlert(st, [statuspageComponentStatus |-> cs]) :
        st \in {"firing", "resolved"}, cs \in ComponentStatusHints}
    \cup {BareAlert}

\* alerts that differ in their status and their status and impact hints
StatusHints == {Absent, "investigating", "Monitoring", "bogus"}
ImpactHints == {Absent, "minor", "CRITICAL", "bogus"}
AlertsSI ==
    {MkAlert(st, [statuspageStatus |-> s, statuspageImpactOverride |-> i]) :
        st \in {"firing", "resolved"}, s \in StatusHints, i \in ImpactHints}
    \cup {BareAlert}

RemoveAt(as, i) == SubSeq(as, 1, i - 1) \o SubSeq(as, i + 1, Len(as))
InsertAt(as, i, a) == SubSeq(as, 1, i - 1) \o <<a>> \o SubSeq(as, i, Len(as))

\* app.py lines 101-103: what handle_alert computes from the batch
Aggregated(as) ==
    /\ severity' = calculate_severity(as)
    /\ component_name' = get_component_name(as)
    /\ summary' = build_summary(as)

RankUnchanged == UNCHANGED <<rankVars, handlerVars, storeVars, historyVars, lookupVars>>

Aggregate ==
    /\ severity = NoSeverity
    /\ Aggregated(alerts)
    /\ UNCHANGED alerts
    /\ RankUnchanged

\* the aggregator on the batch with a non-firing alert added at position i
AddNonFiring(i, a) ==
    /\ severity /= NoSeverity
    /\ Len(alerts) < MaxAlerts
    /\ Get(a, "status", None) /= "firing"
    /\ alerts' = InsertAt(alerts, i, a)
    /\ Aggregated(alerts')
    /\ RankUnchanged

\* ... with the non-firing alert at position i removed
RemoveNonFiring(i) ==
    /\ severity /= NoSeverity
    /\ Get(alerts[i], "status", None) /= "firing"
    /\ alerts' = RemoveAt(alerts, i)
    /\ Aggregated(alerts')
    /\ RankUnchanged

\* ... with the non-firing alert at position i replaced by another one
ChangeNonFiring(i, a) ==
    /\ severity /= NoSeverity
    /\ Get(alerts[i], "status", None) /= "firing"
    /\ Get(a, "status", None) /= "firing"
    /\ a /= alerts[i]
    /\ alerts' = [alerts EXCEPT ![i] = a]
    /\ Aggregated(alerts')
    /\ RankUnchanged

\* ... with the status of the alert at position i switched between firing
\* and resolved
ToggleFiring(i) ==
    /\ severity /= NoSeverity
    /\ "status" \in DOMAIN alerts[i]
    /\ alerts' = [alerts EXCEPT ![i]["status"] =
                       IF @ = "firing" THEN "resolved" ELSE "firing"]
    /\ Aggregated(alerts')
    /\ RankUnchanged

InitAgg(universe) ==
    /\ alerts \in BSeq(universe, MaxAlerts)
    /\ severity = NoSeverity
    /\ summary = <<>>
    /\ component_name = NotCalled
    /\ RankIdle
    /\ HandlerIdle

InitAggCS == InitAgg(AlertsCS)

NextAggCS ==
    \/ Aggregate
    \/ \E i \in 1..(Len(alerts) + 1), a \in AlertsCS : AddNonFiring(i, a)
    \/ \E i \in DOMAIN alerts : RemoveNonFiring(i)
    \/ \E i \in DOMAIN alerts, a \in AlertsCS : ChangeNonFiring(i, a)

SpecAggCS == InitAggCS /\ [][NextAggCS]_vars

InitAggSI == InitAgg(AlertsSI)

NextAggSI ==
    \/ Aggregate
    \/ \E i \in DOMAIN alerts : ToggleFiring(i)

SpecAggSI == InitAggSI /\ [][NextAggSI]_vars

-----------------------------------------------------------------------------
(* The aggregator on batches that differ in their texts *)

\* alerts that differ in their status and their summary
SummaryTexts == {Absent, "", "Database down", "API slow",
                 "Service experiencing issues"}
AlertsSum ==
    {MkAlert(st, [statuspageSummary |-> s]) :
        st \in {"firing", "resolved"}, s \in SummaryTexts}
    \cup {BareAlert}

InitAggSum ==
    /\ alerts \in BSeq(AlertsSum, MaxAlerts + 1)
    /\ severity = NoSeverity
    /\ summary = <<>>
    /\ component_name = NotCalled
    /\ RankIdle
    /\ HandlerIdle

NextAggSum ==
    \/ Aggregate
    \/ \E i \in DOMAIN alerts : ToggleFiring(i)

SpecAggSum == InitAggSum /\ [][NextAggSum]_vars

\* alerts that differ in their status and their component name
ComponentNames == {Absent, "", "Test Component", "Other Name", "Service"}
AlertsName ==
    {MkAlert(st, [statuspageComponentName |-> n]) :
        st \in {"firing", "resolved"}, n \in ComponentNames}
    \cup {BareAlert}

InitAggName == InitAgg(AlertsName)

NextAggName ==
    \/ Aggregate
    \/ \E i \in DOMAIN alerts : ToggleFiring(i)

SpecAggName == InitAggName /\ [][NextAggName]_vars

\* alerts whose three hints are all absent, all empty, all unrecognized or
\* all recognized
Hinted(st, s, i, cs) ==
    MkAlert(st, [statuspageStatus |-> s, statuspageImpactOverride |-> i,
                 statuspageComponentStatus |-> cs])
AlertsAny ==
    {Hinted(st, h, h, h) : st \in {"firing", "resolved"},
                           h \in {Absent, "", "bogus"}}
    \cup {Hinted(st, "investigating", "minor", "operational") :
              st \in {"firing", "resolved"}}
    \cup {Hinted(st, "Monitoring", "CRITICAL", "MAJOR_OUTAGE") :
              st \in {"firing", "resolved"}}
    \cup {BareAlert}

InitAggAny == InitAgg(AlertsAny)

NextAggAny ==
    \/ Aggregate
    \/ \E i \in DOMAIN alerts : ToggleFiring(i)

SpecAggAny == InitAggAny /\ [][NextAggAny]_vars

-----------------------------------------------------------------------------
(* The lookup on lists of unresolved incidents *)

ComponentLists ==
    {Absent, <<>>, <<[id |-> "comp-other", name |-> "Other"]>>,
     <<[id |-> "comp-target", name |-> "Target"]>>,
     <<[name |-> "Nameless"]>>,
     <<[id |-> "comp-other", name |-> "Other"],
       [id |-> "comp-target", name |-> "Target"]>>}

\* an incident as unresolved.json lists it (Absent: no components field)
Incident(id, components) ==
    MkDict({"id", "components"},
           [k \in {"id", "components"} |->
               IF k = "id" THEN id ELSE components])

ListedIncidents ==
    {Incident(id, cs) : id \in {"inc-1", "inc-2", "inc-3"},
                        cs \in ComponentLists}

\* lists of incidents with different ids
IncidentLists ==
    {l \in BSeq(ListedIncidents, MaxIncidents) :
        \A i, j \in DOMAIN l : i /= j => l[i]["id"] /= l[j]["id"]}

InitLookup ==
    /\ unresolved \in IncidentLists
    /\ wanted \in {"comp-target", "comp-other", "comp-none"}
    /\ found = NotFound
    /\ previous = NoPrevious
    /\ API_KEY = "test-api-key"
    /\ pc = [p \in Handlers |-> "idle"]
    /\ locals = [p \in Handlers |-> NoLocals]
    /\ calls = [p \in Handlers |-> <<>>]
    /\ raised = [p \in Handlers |-> NoError]
    /\ response = [p \in Handlers |-> NoResponse]
    /\ incidents = <<>>
    /\ next_id = 0
    /\ RankIdle
    /\ AggIdle

\* statuspage.py lines 50-56, on the list the GET returned
Find ==
    /\ ~found.called
    /\ found' = [called |-> TRUE,
                 incident |-> find_incident_for_component(unresolved, wanted)]
    /\ UNCHANGED <<unresolved, wanted, rankVars, aggVars, handlerVars,
                   storeVars, historyVars>>

NextLookup == Find

SpecLookup == InitLookup /\ [][NextLookup]_vars

-----------------------------------------------------------------------------
(* handle_alert, one step per remote call *)

\* one client call as the handler made it: the keyword arguments, the
\* request the client sent, what it raised and what it returned
Call(op, kw, req, err, ret) ==
    [op |-> op, kwargs |-> kw, request |-> req, raised |-> err, returned |-> ret]

\* what the remote call of a step does: a read returns or raises; a write
\* is applied or not, and returns or raises
ReadOutcomes == {[error |-> e, applied |-> FALSE] : e \in {""} \cup ErrorTypes}
WriteOutcomes == {[error |-> "", applied |-> TRUE],
                  [error |-> "HTTPError", applied |-> FALSE],
                  [error |-> "Timeout", applied |-> TRUE],
                  [error |-> "JSONDecodeError", applied |-> TRUE]}

\* lines 155-160: the except clauses of handle_alert
Fails(p, e) ==
    /\ raised' = [raised EXCEPT ![p] = e]
    /\ response' = [response EXCEPT ![p] =
                       IF IsValueError(e)
                       THEN Response("Configuration error", 500)
                       ELSE Response("Internal server error", 500)]
    /\ pc' = [pc EXCEPT ![p] = "done"]

\* return "", 200
Succeeds(p) ==
    /\ raised' = [raised EXCEPT ![p] = NoError]
    /\ response' = [response EXCEPT ![p] = Response("", 200)]
    /\ pc' = [pc EXCEPT ![p] = "done"]

Logged(p, c) == calls' = [calls EXCEPT ![p] = Append(@, c)]

\* handle_alert without the check of the group labels
ReceiveUnvalidated(p, payload) ==
    /\ pc[p] = "idle"
    /\ UNCHANGED calls
    /\ LET group_labels == Get(payload, "groupLabels", EmptyDict)
           page_id == Get(group_labels, "statuspagePageId", None)
           component_id == Get(group_labels, "statuspageComponentId", None)
       IN IF ~IsTrue(payload)
          THEN /\ response' = [response EXCEPT ![p] = Response("Empty payload", 400)]
               /\ raised' = [raised EXCEPT ![p] = NoError]
               /\ pc' = [pc EXCEPT ![p] = "done"]
               /\ locals' = [locals EXCEPT ![p] = NoLocals]
          ELSE /\ locals' = [locals EXCEPT ![p] =
                                [NoLocals EXCEPT
                                    !.page_id = page_id,
                                    !.component_id = component_id,
                                    !.alerts = Get(payload, "alerts", <<>>),
                                    !.status = Get(payload, "status", "")]]
               /\ IF API_KEY = ""
                  THEN Fails(p, MkError("ValueError", "get_client"))
                  ELSE /\ pc' = [pc EXCEPT ![p] = "find"]
                       /\ raised' = [raised EXCEPT ![p] = NoError]
                       /\ response' = [response EXCEPT ![p] = NoResponse]
    /\ UNCHANGED <<API_KEY, storeVars, rankVars, aggVars, historyVars, lookupVars>>

\* lines 62-82: the request arrives; validation and get_client
Receive(p, payload) ==
    /\ pc[p] = "idle"
    /\ UNCHANGED calls
    /\ LET group_labels == Get(payload, "groupLabels", EmptyDict)
           page_id == Get(group_labels, "statuspagePageId", None)
           component_id == Get(group_labels, "statuspageComponentId", None)
       IN IF ~IsTrue(payload)
          THEN /\ response' = [response EXCEPT ![p] = Response("Empty payload", 400)]
               /\ raised' = [raised EXCEPT ![p] = NoError]
               /\ pc' = [pc EXCEPT ![p] = "done"]
               /\ locals' = [locals EXCEPT ![p] = NoLocals]
          ELSE IF ~Truthy(page_id) \/ ~Truthy(component_id)
          THEN /\ response' = [response EXCEPT ![p] =
                                  Response("Missing required group labels", 400)]
               /\ raised' = [raised EXCEPT ![p] = NoError]
               /\ pc' = [pc EXCEPT ![p] = "done"]
               /\ locals' = [locals EXCEPT ![p] =
                                [NoLocals EXCEPT !.page_id = page_id,
                                                 !.component_id = component_id]]
          ELSE /\ locals' = [locals EXCEPT ![p] =
                                [NoLocals EXCEPT
                                    !.page_id = page_id,
                                    !.component_id = component_id,
                                    !.alerts = Get(payload, "alerts", <<>>),
                                    !.status = Get(payload, "status", "")]]
               /\ IF API_KEY = ""
                  THEN Fails(p, MkError("ValueError", "get_client"))
                  ELSE /\ pc' = [pc EXCEPT ![p] = "find"]
                       /\ raised' = [raised EXCEPT ![p] = NoError]
                       /\ response' = [response EXCEPT ![p] = NoResponse]
    /\ UNCHANGED <<API_KEY, storeVars, rankVars, aggVars, historyVars, lookupVars>>

FindCall(l, err, ret) ==
    Call("find_incident_for_component",
         [page_id |-> l.page_id, component_id |-> l.component_id],
         get_unresolved_incidents_request(l.page_id), err, ret)

\* handle_alert without the return that ends the resolved branch when there
\* is no incident: it goes on to the create path
DispatchResolvedFallsThrough(p, existing_incident) ==
    LET l == locals[p] IN
    IF l.status = "resolved" /\ IsTrue(existing_incident)
    THEN /\ locals' = [locals EXCEPT ![p].existing_incident = existing_incident]
         /\ pc' = [pc EXCEPT ![p] = "resolve"]
         /\ UNCHANGED <<raised, response>>
    ELSE LET severity_ == calculate_severity(l.alerts)
             component_name_ == get_component_name(l.alerts)
             summary_ == build_summary(l.alerts)
         IN /\ locals' = [locals EXCEPT
                   ![p].existing_incident = existing_incident,
                   ![p].severity = severity_,
                   ![p].title = format_title(component_name_),
                   ![p].body = format_body(summary_, component_name_)]
            /\ pc' = [pc EXCEPT ![p] =
                         IF IsTrue(existing_incident) THEN "update" ELSE "create"]
            /\ UNCHANGED <<raised, response>>

\* handle_alert creating an incident for every batch that is not resolved,
\* whether the lookup found one or not
DispatchAlwaysCreates(p, existing_incident) ==
    LET l == locals[p] IN
    IF l.status = "resolved"
    THEN /\ locals' = [locals EXCEPT ![p].existing_incident = existing_incident]
         /\ IF IsTrue(existing_incident)
            THEN /\ pc' = [pc EXCEPT ![p] = "resolve"]
                 /\ UNCHANGED <<raised, response>>
            ELSE Succeeds(p)
    ELSE LET severity_ == calculate_severity(l.alerts)
             component_name_ == get_component_name(l.alerts)
             summary_ == build_summary(l.alerts)
         IN /\ locals' = [locals EXCEPT
                   ![p].existing_incident = existing_incident,
                   ![p].severity = severity_,
                   ![p].title = format_title(component_name_),
                   ![p].body = format_body(summary_, component_name_)]
            /\ pc' = [pc EXCEPT ![p] = "create"]
            /\ UNCHANGED <<raised, response>>

\* handle_alert doing nothing for a batch that is not resolved and holds no
\* firing alert
DispatchSkipsWhenNoneFiring(p, existing_incident) ==
    LET l == locals[p] IN
    IF l.status = "resolved"
    THEN /\ locals' = [locals EXCEPT ![p].existing_incident = existing_incident]
         /\ IF IsTrue(existing_incident)
            THEN /\ pc' = [pc EXCEPT ![p] = "resolve"]
                 /\ UNCHANGED <<raised, response>>
            ELSE Succeeds(p)
    ELSE IF get_firing_alerts(l.alerts) = <<>>
    THEN /\ locals' = [locals EXCEPT ![p].existing_incident = existing_incident]
         /\ Succeeds(p)
    ELSE LET severity_ == calculate_severity(l.alerts)
             component_name_ == get_component_name(l.alerts)
             summary_ == build_summary(l.alerts)
         IN /\ locals' = [locals EXCEPT
                   ![p].existing_incident = existing_incident,
                   ![p].severity = severity_,
                   ![p].title = format_title(component_name_),
                   ![p].body = format_body(summary_, component_name_)]
            /\ pc' = [pc EXCEPT ![p] =
                         IF IsTrue(existing_incident) THEN "update" ELSE "create"]
            /\ UNCHANGED <<raised, response>>

\* handle_alert taking a batch with no firing alert for a resolved one
DispatchResolvesWhenNoneFiring(p, existing_incident) ==
    LET l == locals[p] IN
    IF l.status = "resolved" \/ get_firing_alerts(l.alerts) = <<>>
    THEN /\ locals' = [locals EXCEPT ![p].existing_incident = existing_incident]
         /\ IF IsTrue(existing_incident)
            THEN /\ pc' = [pc EXCEPT ![p] = "resolve"]
                 /\ UNCHANGED <<raised, response>>
            ELSE Succeeds(p)
    ELSE LET severity_ == calculate_severity(l.alerts)
             component_name_ == get_component_name(l.alerts)
             summary_ == build_summary(l.alerts)
         IN /\ locals' = [locals EXCEPT
                   ![p].existing_incident = existing_incident,
                   ![p].severity = severity_,
                   ![p].title = format_title(component_name_),
                   ![p].body = format_body(summary_, component_name_)]
            /\ pc' = [pc EXCEPT ![p] =
                         IF IsTrue(existing_incident) THEN "update" ELSE "create"]
            /\ UNCHANGED <<raised, response>>

\* lines 87-121: what handle_alert does with the result of the lookup, up
\* to its next remote call
Dispatch(p, existing_incident) ==
    LET l == locals[p] IN
    IF l.status = "resolved"
    THEN /\ locals' = [locals EXCEPT ![p].existing_incident = existing_incident]
         /\ IF IsTrue(existing_incident)
            THEN /\ pc' = [pc EXCEPT ![p] = "resolve"]
                 /\ UNCHANGED <<raised, response>>
            ELSE Succeeds(p)
    ELSE LET severity_ == calculate_severity(l.alerts)
             component_name_ == get_component_name(l.alerts)
             summary_ == build_summary(l.alerts)
         IN /\ locals' = [locals EXCEPT
                   ![p].existing_incident = existing_incident,
                   ![p].severity = severity_,
                   ![p].title = format_title(component_name_),
                   ![p].body = format_body(summary_, component_name_)]
            /\ pc' = [pc EXCEPT ![p] =
                         IF IsTrue(existing_incident) THEN "update" ELSE "create"]
            /\ UNCHANGED <<raised, response>>

\* handle_alert taking a lookup that failed for a lookup that found nothing
FindExistingSwallowsFailure(p, o) ==
    /\ pc[p] = "find"
    /\ LET l == locals[p]
           err == IF o.error = "" THEN NoError
                  ELSE MkError(o.error, "find_incident_for_component")
           existing_incident ==
               IF o.error = ""
               THEN find_incident_for_component(Unresolved(incidents),
                                                l.component_id)
               ELSE EmptyDict
       IN /\ Logged(p, FindCall(l, err, existing_incident))
          /\ Dispatch(p, existing_incident)
    /\ UNCHANGED <<API_KEY, storeVars, rankVars, aggVars, historyVars, lookupVars>>

\* line 85, and what follows up to the next remote call
FindExisting(p, o) ==
    /\ pc[p] = "find"
    /\ LET l == locals[p]
           err == IF o.error = "" THEN NoError
                  ELSE MkError(o.error, "find_incident_for_component")
           existing_incident ==
               IF o.error = ""
               THEN find_incident_for_component(Unresolved(incidents),
                                                l.component_id)
               ELSE EmptyDict
       IN /\ Logged(p, FindCall(l, err, existing_incident))
          /\ IF o.error /= ""
             THEN Fails(p, err) /\ UNCHANGED locals
             ELSE Dispatch(p, existing_incident)
    /\ UNCHANGED <<API_KEY, storeVars, rankVars, aggVars, historyVars, lookupVars>>

ResolveCall(l, err) ==
    Call("resolve_incident",
         [page_id |-> l.page_id, incident_id |-> l.existing_incident.id,
          component_id |-> l.component_id],
         resolve_incident_request(l.page_id, l.existing_incident.id,
                                  l.component_id, <<>>),
         err, EmptyDict)

\* lines 89-98
Resolve(p, o) ==
    /\ pc[p] = "resolve"
    /\ LET l == locals[p]
           err == IF o.error = "" THEN NoError
                  ELSE MkError(o.error, "resolve_incident")
           c == ResolveCall(l, err)
       IN /\ Logged(p, c)
          /\ incidents' = IF o.applied THEN StorePatched(incidents, c.request)
                          ELSE incidents
          /\ IF o.error = "" THEN Succeeds(p) ELSE Fails(p, err)
    /\ UNCHANGED <<API_KEY, locals, next_id, rankVars, aggVars, historyVars, lookupVars>>

\* update_incident called with a fixed component status instead of
\* severity["component_status"]
UpdateCallFixedComponentStatus(l, incident_id, err) ==
    Call("update_incident",
         [page_id |-> l.page_id, incident_id |-> incident_id,
          component_id |-> l.component_id, body |-> l.body,
          status |-> l.severity.status,
          impact_override |-> l.severity.impact_override,
          component_status |-> "partial_outage"],
         update_incident_request(l.page_id, incident_id, l.component_id,
                                 l.body, l.severity.status,
                                 l.severity.impact_override,
                                 "partial_outage"),
         err, EmptyDict)

UpdateCall(l, incident_id, err) ==
    Call("update_incident",
         [page_id |-> l.page_id, incident_id |-> incident_id,
          component_id |-> l.component_id, body |-> l.body,
          status |-> l.severity.status,
          impact_override |-> l.severity.impact_override,
          component_status |-> l.severity.component_status],
         update_incident_request(l.page_id, incident_id, l.component_id,
                                 l.body, l.severity.status,
                                 l.severity.impact_override,
                                 l.severity.component_status),
         err, EmptyDict)

\* the update of the incident with the given id, and the end of the request
Updates(p, incident_id, o) ==
    LET err == IF o.error = "" THEN NoError
               ELSE MkError(o.error, "update_incident")
        c == UpdateCall(locals[p], incident_id, err)
    IN /\ Logged(p, c)
       /\ incidents' = IF o.applied THEN StorePatched(incidents, c.request)
                       ELSE incidents
       /\ IF o.error = "" THEN Succeeds(p) ELSE Fails(p, err)

\* lines 108-119
Update(p, o) ==
    /\ pc[p] = "update"
    /\ Updates(p, locals[p].existing_incident.id, o)
    /\ UNCHANGED <<API_KEY, locals, next_id, rankVars, aggVars, historyVars, lookupVars>>

\* create_incident called without the impact aggregated from the batch
CreateCallNoImpact(l, err) ==
    Call("create_incident",
         [page_id |-> l.page_id, component_id |-> l.component_id,
          title |-> l.title, body |-> l.body,
          status |-> l.severity.status,
          impact_override |-> "none",
          component_status |-> l.severity.component_status],
         create_incident_request(l.page_id, l.component_id, l.title, l.body,
                                 l.severity.status,
                                 "none",
                                 l.severity.component_status),
         err, EmptyDict)

CreateCall(l, err) ==
    Call("create_incident",
         [page_id |-> l.page_id, component_id |-> l.component_id,
          title |-> l.title, body |-> l.body,
          status |-> l.severity.status,
          impact_override |-> l.severity.impact_override,
          component_status |-> l.severity.component_status],
         create_incident_request(l.page_id, l.component_id, l.title, l.body,
                                 l.severity.status,
                                 l.severity.impact_override,
                                 l.severity.component_status),
         err, EmptyDict)

\* lines 120-136: create, and on failure the except clause up to the recheck
Create(p, o) ==
    /\ pc[p] = "create"
    /\ o.applied => next_id < MaxIncidents
    /\ LET l == locals[p]
           create_error == IF o.error = "" THEN NoError
                           ELSE MkError(o.error, "create_incident")
           c == CreateCall(l, create_error)
       IN /\ Logged(p, c)
          /\ IF o.applied
             THEN /\ incidents' = StoreCreated(incidents, next_id + 1, c.request)
                  /\ next_id' = next_id + 1
             ELSE UNCHANGED <<incidents, next_id>>
          /\ IF o.error = ""
             THEN Succeeds(p) /\ UNCHANGED locals
             ELSE /\ locals' = [locals EXCEPT ![p].create_error = create_error]
                  /\ pc' = [pc EXCEPT ![p] = "recheck"]
                  /\ UNCHANGED <<raised, response>>
    /\ UNCHANGED <<API_KEY, rankVars, aggVars, historyVars, lookupVars>>

\* the except clause raising create_error whatever the recheck found
AfterRecheckNoRecovery(p, existing) ==
    Fails(p, locals[p].create_error) /\ UNCHANGED locals

\* the except clause returning normally when the recheck found nothing
AfterRecheckSwallows(p, existing) ==
    IF IsTrue(existing)
    THEN /\ locals' = [locals EXCEPT ![p].existing = existing]
         /\ pc' = [pc EXCEPT ![p] = "update_after_race"]
         /\ UNCHANGED <<raised, response>>
    ELSE Succeeds(p) /\ UNCHANGED locals

\* the except clause trying create again when the recheck found nothing
AfterRecheckRetriesCreate(p, existing) ==
    IF IsTrue(existing)
    THEN /\ locals' = [locals EXCEPT ![p].existing = existing]
         /\ pc' = [pc EXCEPT ![p] = "update_after_race"]
         /\ UNCHANGED <<raised, response>>
    ELSE /\ pc' = [pc EXCEPT ![p] = "create"]
         /\ UNCHANGED <<locals, raised, response>>

\* lines 138-151: what the except clause does with the result of the recheck
AfterRecheck(p, existing) ==
    IF IsTrue(existing)
    THEN /\ locals' = [locals EXCEPT ![p].existing = existing]
         /\ pc' = [pc EXCEPT ![p] = "update_after_race"]
         /\ UNCHANGED <<raised, response>>
    ELSE Fails(p, locals[p].create_error) /\ UNCHANGED locals

\* the except clause taking a recheck that failed for one that found
\* nothing, and raising create_error
RecheckSwallowsFailure(p, o) ==
    /\ pc[p] = "recheck"
    /\ LET l == locals[p]
           err == IF o.error = "" THEN NoError
                  ELSE MkError(o.error, "find_incident_for_component")
           existing ==
               IF o.error = ""
               THEN find_incident_for_component(Unresolved(incidents),
                                                l.component_id)
               ELSE EmptyDict
       IN /\ Logged(p, FindCall(l, err, existing))
          /\ AfterRecheck(p, existing)
    /\ UNCHANGED <<API_KEY, storeVars, rankVars, aggVars, historyVars, lookupVars>>

\* lines 137-151: the recheck after a failed create
Recheck(p, o) ==
    /\ pc[p] = "recheck"
    /\ LET l == locals[p]
           err == IF o.error = "" THEN NoError
                  ELSE MkError(o.error, "find_incident_for_component")
           existing ==
               IF o.error = ""
               THEN find_incident_for_component(Unresolved(incidents),
                                                l.component_id)
               ELSE EmptyDict
       IN /\ Logged(p, FindCall(l, err, existing))
          /\ IF o.error /= ""
             THEN Fails(p, err) /\ UNCHANGED locals
             ELSE AfterRecheck(p, existing)
    /\ UNCHANGED <<API_KEY, storeVars, rankVars, aggVars, historyVars, lookupVars>>

\* lines 138-148, then line 153
UpdateAfterRace(p, o) ==
    /\ pc[p] = "update_after_race"
    /\ Updates(p, locals[p].existing.id, o)
    /\ UNCHANGED <<API_KEY, locals, next_id, rankVars, aggVars, historyVars, lookupVars>>

\* handle_alert has returned: its frame is gone
Return(p) ==
    /\ pc[p] = "done"
    /\ pc' = [pc EXCEPT ![p] = "idle"]
    /\ locals' = [locals EXCEPT ![p] = NoLocals]
    /\ calls' = [calls EXCEPT ![p] = <<>>]
    /\ raised' = [raised EXCEPT ![p] = NoError]
    /\ response' = [response EXCEPT ![p] = NoResponse]
    /\ UNCHANGED <<API_KEY, storeVars, rankVars, aggVars, historyVars, lookupVars>>

-----------------------------------------------------------------------------
(* Other users of the status page: another instance of the bridge, an      *)
(* operator                                                                *)

\* somebody else opens an incident for the component
OtherCreates(component_id) ==
    /\ next_id < MaxIncidents
    /\ incidents' = Append(incidents,
                           [id |-> IncidentId(next_id + 1),
                            status |-> "identified",
                            components |-> <<[id |-> component_id]>>])
    /\ next_id' = next_id + 1
    /\ UNCHANGED <<handlerVars, rankVars, aggVars, historyVars, lookupVars>>

OtherResolves(j) ==
    /\ incidents[j].status /= "resolved"
    /\ incidents' = [incidents EXCEPT ![j].status = "resolved"]
    /\ UNCHANGED <<next_id, handlerVars, rankVars, aggVars, historyVars, lookupVars>>

-----------------------------------------------------------------------------
(* Webhook payloads *)

Annotated(st, name, status, impact, cs, text) ==
    MkAlert(st, [statuspageComponentName |-> name,
                 statuspageStatus |-> status,
                 statuspageImpactOverride |-> impact,
                 statuspageComponentStatus |-> cs,
                 statuspageSummary |-> text])

FiringMinor == Annotated("firing", "Test Component", "identified", "minor",
                         "degraded_performance", "Still having issues")
FiringCritical == Annotated("firing", "Test Component", "identified",
                            "critical", "major_outage", "Critical outage")
ResolvedCritical == Annotated("resolved", "Other Name", "identified",
                              "critical", "major_outage", "This one recovered")
ResolvedMarked == MkAlert("resolved", [statuspageStatus |-> "resolved"])

WebhookAlerts == {FiringMinor, FiringCritical, ResolvedCritical, ResolvedMarked}

make_webhook_payload(status, page_id, component_id, as) ==
    [status |-> status,
     groupLabels |-> [statuspagePageId |-> page_id,
                      statuspageComponentId |-> component_id],
     alerts |-> as]

ValidPayloads ==
    {make_webhook_payload(st, "page-123", "comp-456", as) :
        st \in {"firing", "resolved"}, as \in BSeq(WebhookAlerts, MaxBatch)}

\* payloads that lack a key, or hold an empty one
InvalidPayloads ==
    {EmptyDict,
     [status |-> "firing", alerts |-> <<FiringMinor>>],
     [status |-> "firing", alerts |-> <<FiringMinor>>,
      groupLabels |-> [statuspageComponentId |-> "comp-456"]],
     [status |-> "resolved", alerts |-> <<ResolvedCritical>>,
      groupLabels |-> [statuspagePageId |-> "page-123"]],
     make_webhook_payload("firing", "", "comp-456", <<FiringMinor>>),
     make_webhook_payload("firing", "page-123", "", <<FiringMinor>>)}

\* a payload with neither a status nor alerts
BarePayload == [groupLabels |-> [statuspagePageId |-> "page-123",
                                 statuspageComponentId |-> "comp-456"]]

Payloads == ValidPayloads \cup InvalidPayloads \cup {BarePayload}

-----------------------------------------------------------------------------
(* One handler at a time, beside other users of the status page *)

Init ==
    /\ API_KEY \in {"", "test-api-key"}
    /\ pc = [p \in Handlers |-> "idle"]
    /\ locals = [p \in Handlers |-> NoLocals]
    /\ calls = [p \in Handlers |-> <<>>]
    /\ raised = [p \in Handlers |-> NoError]
    /\ response = [p \in Handlers |-> NoResponse]
    /\ incidents \in {<<>>, <<OtherIncident>>}
    /\ next_id = 0
    /\ previous = NoPrevious
    /\ LookupIdle
    /\ RankIdle
    /\ AggIdle

Next ==
    \/ \E payload \in Payloads : Receive(1, payload)
    \/ \E o \in ReadOutcomes : FindExisting(1, o)
    \/ \E o \in WriteOutcomes : Resolve(1, o)
    \/ \E o \in WriteOutcomes : Update(1, o)
    \/ \E o \in WriteOutcomes : Create(1, o)
    \/ \E o \in ReadOutcomes : Recheck(1, o)
    \/ \E o \in WriteOutcomes : UpdateAfterRace(1, o)
    \/ Return(1)
    \/ OtherCreates("comp-456")
    \/ \E j \in DOMAIN incidents : OtherResolves(j)

Spec == Init /\ [][Next]_vars

-----------------------------------------------------------------------------
(* The bridge as the only user of the page, serving one request after the  *)
(* other                                                                   *)

OpsOf(cs) == [n \in DOMAIN cs |-> cs[n].op]

\* what is remembered of a request once handle_alert has returned
Served(p) == [status |-> locals[p].status, page_id |-> locals[p].page_id,
              component_id |-> locals[p].component_id,
              code |-> response[p].code, ops |-> OpsOf(calls[p])]

\* handle_alert has returned and the next request can be served
ReturnServed(p) ==
    /\ pc[p] = "done"
    /\ pc' = [pc EXCEPT ![p] = "idle"]
    /\ locals' = [locals EXCEPT ![p] = NoLocals]
    /\ calls' = [calls EXCEPT ![p] = <<>>]
    /\ raised' = [raised EXCEPT ![p] = NoError]
    /\ response' = [response EXCEPT ![p] = NoResponse]
    /\ previous' = Served(p)
    /\ UNCHANGED <<API_KEY, storeVars, rankVars, aggVars, lookupVars>>

SeqAlerts == {FiringMinor, ResolvedMarked}

\* requests for two components of the page
SeqPayloads ==
    {make_webhook_payload(st, "page-123", c, as) :
        st \in {"firing", "resolved"}, c \in {"comp-456", "comp-other"},
        as \in BSeq(SeqAlerts, MaxBatch - 1)}

InitSeq ==
    /\ API_KEY = "test-api-key"
    /\ pc = [p \in Handlers |-> "idle"]
    /\ locals = [p \in Handlers |-> NoLocals]
    /\ calls = [p \in Handlers |-> <<>>]
    /\ raised = [p \in Handlers |-> NoError]
    /\ response = [p \in Handlers |-> NoResponse]
    /\ incidents \in {<<>>, <<OtherIncident>>}
    /\ next_id = 0
    /\ previous = NoPrevious
    /\ LookupIdle
    /\ RankIdle
    /\ AggIdle

NextSeq ==
    \/ \E payload \in SeqPayloads : Receive(1, payload)
    \/ \E o \in ReadOutcomes : FindExisting(1, o)
    \/ \E o \in WriteOutcomes : Resolve(1, o)
    \/ \E o \in WriteOutcomes : Update(1, o)
    \/ \E o \in WriteOutcomes : Create(1, o)
    \/ \E o \in ReadOutcomes : Recheck(1, o)
    \/ \E o \in WriteOutcomes : UpdateAfterRace(1, o)
    \/ ReturnServed(1)

SpecSeq == InitSeq /\ [][NextSeq]_vars

-----------------------------------------------------------------------------
(* Two requests for the same component served at the same time: the calls  *)
(* of the two handlers interleave, and nothing but the status page is      *)
(* shared between them                                                     *)

\* an open incident of the page that affects the component
ExistingIncident == [id |-> IncidentId(0), status |-> "identified",
                     components |-> <<[id |-> "comp-456"]>>]

ConcPayloads ==
    {make_webhook_payload(st, "page-123", "comp-456", <<FiringMinor>>) :
        st \in {"firing", "resolved"}}

InitConc ==
    /\ API_KEY = "test-api-key"
    /\ pc = [p \in Handlers |-> "idle"]
    /\ locals = [p \in Handlers |-> NoLocals]
    /\ calls = [p \in Handlers |-> <<>>]
    /\ raised = [p \in Handlers |-> NoError]
    /\ response = [p \in Handlers |-> NoResponse]
    /\ incidents \in {<<>>, <<ExistingIncident>>}
    /\ next_id = 0
    /\ previous = NoPrevious
    /\ LookupIdle
    /\ RankIdle
    /\ AggIdle

NextConc ==
    \E p \in Handlers :
        \/ \E payload \in ConcPayloads : Receive(p, payload)
        \/ \E o \in ReadOutcomes : FindExisting(p, o)
        \/ \E o \in WriteOutcomes : Resolve(p, o)
        \/ \E o \in WriteOutcomes : Update(p, o)
        \/ \E o \in WriteOutcomes : Create(p, o)
        \/ \E o \in ReadOutcomes : Recheck(p, o)
        \/ \E o \in WriteOutcomes : UpdateAfterRace(p, o)

SpecConc == InitConc /\ [][NextConc]_vars

-----------------------------------------------------------------------------
(* Two requests served at the same time against a status page that keeps   *)
(* one unresolved incident per component and answers every other call      *)

Answered == [error |-> "", applied |-> TRUE]
Rejected == [error |-> "HTTPError", applied |-> FALSE]
Read == [error |-> "", applied |-> FALSE]

HasOpenIncident(component_id) ==
    IsTrue(find_incident_for_component(Unresolved(incidents), component_id))

\* lines 120-136 against a store that rejects the POST when the component
\* has an unresolved incident
CreateAtomic(p) ==
    Create(p, IF HasOpenIncident(locals[p].component_id) THEN Rejected
              ELSE Answered)

\* batches marked firing whose alerts fire
AtomicPayloads ==
    {make_webhook_payload("firing", "page-123", "comp-456", as) :
        as \in BSeq({FiringMinor, FiringCritical}, MaxBatch) \ {<<>>}}

InitAtomic ==
    /\ API_KEY = "test-api-key"
    /\ pc = [p \in Handlers |-> "idle"]
    /\ locals = [p \in Handlers |-> NoLocals]
    /\ calls = [p \in Handlers |-> <<>>]
    /\ raised = [p \in Handlers |-> NoError]
    /\ response = [p \in Handlers |-> NoResponse]
    /\ incidents = <<>>
    /\ next_id = 0
    /\ previous = NoPrevious
    /\ LookupIdle
    /\ RankIdle
    /\ AggIdle

NextAtomic ==
    \E p \in Handlers :
        \/ \E payload \in AtomicPayloads : Receive(p, payload)
        \/ FindExisting(p, Read)
        \/ Update(p, Answered)
        \/ CreateAtomic(p)
        \/ Recheck(p, Read)
        \/ UpdateAfterRace(p, Answered)

SpecAtomic == InitAtomic /\ [][NextAtomic]_vars

-----------------------------------------------------------------------------
(* Rank-max, stated without the loop *)

\* the rank of x in an order (the orders list no value twice)
Rank(order, x) == CHOOSE i \in DOMAIN order : order[i] = x

\* the lower-cased values of a list that are in the order
Survivors(vals, order) == {Lower(v) : v \in Range(vals)} \cap Range(order)

\* x is the highest-ranked member of the set S
IsHighest(order, S, x) ==
    /\ x \in S
    /\ \A y \in S : Rank(order, y) <= Rank(order, x)

\* x is what rank-max gives for a list: the highest-ranked survivor, and the
\* default when there is none
IsRankMax(vals, order, default, x) ==
    IF Survivors(vals, order) = {} THEN x = default
    ELSE IsHighest(order, Survivors(vals, order), x)

\* C9 (as amended): for every list, order and default, get_max_by_order
\* returns the lower-cased member of the list with the highest rank in the
\* order, ignoring the values that are not in the order, and returns the
\* default whenever no value of the list is in the order.
C9_RankMax ==
    result /= NotCalled =>
        IsRankMax(values, OrderOf(dim), DefaultOf(dim), result)

\* C9 as stated: in addition, the default is returned only when no value of
\* the list is in the order.
C9_DefaultExactlyWhenNoSurvivor ==
    result /= NotCalled =>
        /\ IsRankMax(values, OrderOf(dim), DefaultOf(dim), result)
        /\ (result = DefaultOf(dim) <=> Survivors(values, OrderOf(dim)) = {})

\* get_max_by_order has returned the lower-cased form of a value written in
\* upper case, from a list that also holds a value outside the order
C9_Witness ==
    /\ result /= NotCalled
    /\ \E i \in DOMAIN values : values[i] /= Lower(values[i])
                                /\ result = Lower(values[i])
    /\ \E i \in DOMAIN values : Lower(values[i]) \notin Range(OrderOf(dim))

\* C10: adding to a list a valid value that ranks above the list's result
\* never lowers the rank of the result, and adding a value that is not in the
\* order never changes the result.
C10_Monotonic ==
    prev_result /= NotCalled =>
        LET order == OrderOf(dim)
            v == Lower(added)
        IN /\ v \notin Range(order) => result = prev_result
           /\ (v \in Range(order) /\ Rank(order, v) > Rank(order, prev_result))
                 => Rank(order, result) >= Rank(order, prev_result)

\* both cases have happened: an unrecognized value was added to a list with
\* a valid value, or a higher-ranked valid value was added
C10_Witness ==
    /\ prev_result /= NotCalled
    /\ Survivors(values, OrderOf(dim)) /= {}
    /\ \/ /\ Lower(added) \notin Range(OrderOf(dim))
          /\ prev_result /= DefaultOf(dim)
       \/ /\ Lower(added) \in Range(OrderOf(dim))
          /\ Rank(OrderOf(dim), Lower(added)) > Rank(OrderOf(dim), prev_result)
          /\ result = Lower(added)

-----------------------------------------------------------------------------
(* The partitioning rule of the aggregator *)

IsFiring(a) == "status" \in DOMAIN a /\ a["status"] = "firing"
FiringPart(as) == SelectSeq(as, IsFiring)

HasHint(a, key) ==
    "annotations" \in DOMAIN a /\ key \in DOMAIN a["annotations"]

\* the hints an alert list gives for a key, the alerts without one left out
HintsOf(as, key) ==
    MapSeq(SelectSeq(as, LAMBDA a : HasHint(a, key)),
           LAMBDA a : a["annotations"][key])

\* the hints an alert list gives for a key, an alert without one giving d
HintsOrDefault(as, key, d) ==
    MapSeq(as, LAMBDA a : IF HasHint(a, key) THEN a["annotations"][key] ELSE d)

\* two batches hold the same alerts in the same order, up to which of them
\* are firing
SameButFiring(as, bs) ==
    /\ Len(as) = Len(bs)
    /\ \A i \in DOMAIN as :
          /\ DOMAIN as[i] = DOMAIN bs[i]
          /\ \A k \in DOMAIN as[i] \ {"status"} : as[i][k] = bs[i][k]

C7_FiringHintsOnly ==
    severity /= NoSeverity =>
        IsRankMax(HintsOf(FiringPart(alerts), "statuspageComponentStatus"),
                  COMPONENT_STATUS_ORDER, "partial_outage",
                  severity.component_status)

C7_NonFiringIgnored ==
    [][(/\ severity /= NoSeverity
        /\ severity' /= NoSeverity
        /\ FiringPart(alerts') = FiringPart(alerts))
          => severity'.component_status = severity.component_status]_vars

\* C7: the aggregated component_status is the rank-max of the
\* component-status hints of the firing alerts, and adding, removing or
\* changing a non-firing alert never changes it.
C7_ComponentStatusFromFiring == []C7_FiringHintsOnly /\ C7_NonFiringIgnored

\* a firing degraded_performance alert together with a non-firing
\* major_outage alert has been aggregated to degraded_performance
C7_Witness ==
    /\ severity /= NoSeverity
    /\ severity.component_status = "degraded_performance"
    /\ \E i \in DOMAIN alerts :
          /\ IsFiring(alerts[i])
          /\ HasHint(alerts[i], "statuspageComponentStatus")
    /\ \E i \in DOMAIN alerts :
          /\ ~IsFiring(alerts[i])
          /\ HasHint(alerts[i], "statuspageComponentStatus")
          /\ Lower(alerts[i]["annotations"]["statuspageComponentStatus"])
                = "major_outage"

C8_AllAlertsCount ==
    severity /= NoSeverity =>
        /\ IsRankMax(HintsOrDefault(alerts, "statuspageStatus", "identified"),
                     STATUS_ORDER, "identified", severity.status)
        /\ IsRankMax(HintsOrDefault(alerts, "statuspageImpactOverride", "none"),
                     IMPACT_ORDER, "none", severity.impact_override)

C8_FiringStateIgnored ==
    [][(/\ severity /= NoSeverity
        /\ severity' /= NoSeverity
        /\ SameButFiring(alerts, alerts'))
          => /\ severity'.status = severity.status
             /\ severity'.impact_override = severity.impact_override]_vars

\* C8: two batches that differ only in which alerts are firing give the same
\* workflow status and the same impact, each the rank-max over the hints of
\* every alert of the batch.
C8_StatusImpactFromAll == []C8_AllAlertsCount /\ C8_FiringStateIgnored

\* the aggregated impact and status both come from alerts that are not firing,
\* in a batch that also holds a firing alert
C8_Witness ==
    /\ severity /= NoSeverity
    /\ severity.impact_override = "critical"
    /\ severity.status = "monitoring"
    /\ \E i \in DOMAIN alerts : IsFiring(alerts[i])
    /\ \A i \in DOMAIN alerts :
          IsFiring(alerts[i]) =>
             /\ ~HasHint(alerts[i], "statuspageImpactOverride")
             /\ ~HasHint(alerts[i], "statuspageStatus")

-----------------------------------------------------------------------------
(* The reconciliation of one request, read off the calls it made *)

CallsOf(p, op) == SelectSeq(calls[p], LAMBDA c : c.op = op)
Count(p, op) == Len(CallsOf(p, op))

Done(p) == pc[p] = "done"
NotResolvedBatch(p) == Done(p) /\ locals[p].status /= "resolved"
ResolvedBatch(p) == Done(p) /\ locals[p].status = "resolved"

\* the n-th call of the request was a lookup that returned (an incident or
\* nothing)
LookupReturned(p, n) ==
    /\ Len(calls[p]) >= n
    /\ calls[p][n].op = "find_incident_for_component"
    /\ calls[p][n].raised = NoError
LookupAbsent(p, n) == LookupReturned(p, n) /\ ~IsTrue(calls[p][n].returned)
LookupPresent(p, n) == LookupReturned(p, n) /\ IsTrue(calls[p][n].returned)

CreateFailed(p, n) ==
    /\ Len(calls[p]) >= n
    /\ calls[p][n].op = "create_incident"
    /\ calls[p][n].raised /= NoError

\* the call carries the snapshot aggregated from the batch of the request
CarriesSnapshot(p, c) ==
    LET as == locals[p].alerts IN
    /\ c.kwargs.page_id = locals[p].page_id
    /\ c.kwargs.component_id = locals[p].component_id
    /\ c.kwargs.status = calculate_severity(as).status
    /\ c.kwargs.impact_override = calculate_severity(as).impact_override
    /\ c.kwargs.component_status = calculate_severity(as).component_status
    /\ c.kwargs.body = format_body(build_summary(as), get_component_name(as))

\* the request the client sent carries what the call was given
RequestCarries(c) ==
    /\ c.request.json.incident.status = c.kwargs.status
    /\ c.request.json.incident.impact_override = c.kwargs.impact_override
    /\ c.request.json.incident.body = c.kwargs.body
    /\ c.request.json.incident.components
          = [x \in {c.kwargs.component_id} |-> c.kwargs.component_status]

OK200 == Response("", 200)

RaceFound(p) ==
    /\ NotResolvedBatch(p)
    /\ LookupAbsent(p, 1)
    /\ CreateFailed(p, 2)
    /\ LookupPresent(p, 3)

\* what C1 says of the update: exactly one, for the incident the recheck
\* found, with the snapshot of the original batch
RaceUpdate(p) ==
    /\ Count(p, "update_incident") = 1
    /\ Len(calls[p]) = 4
    /\ calls[p][4].op = "update_incident"
    /\ calls[p][4].kwargs.incident_id = calls[p][3].returned.id
    /\ CarriesSnapshot(p, calls[p][4])
    /\ RequestCarries(calls[p][4])
    /\ Count(p, "create_incident") = 1

\* C1 as stated: after lookup absent, create failed, recheck present, update
\* is called exactly once with the found id and the batch's snapshot, and the
\* request ends in success (200) without surfacing the create failure.
C1_RaceAlwaysSucceeds ==
    RaceFound(1) =>
        /\ RaceUpdate(1)
        /\ response[1] = OK200
        /\ raised[1] = NoError

\* C1 (as amended): ... update is called exactly once with the found id and
\* the batch's snapshot; the create failure is never surfaced; and the
\* request ends in success (200) when that update succeeds.
C1_RaceRecovery ==
    RaceFound(1) =>
        /\ RaceUpdate(1)
        /\ raised[1] /= locals[1].create_error
        /\ raised[1] /= calls[1][2].raised
        /\ calls[1][4].raised = NoError =>
              (response[1] = OK200 /\ raised[1] = NoError)

\* a request recovered from a failed create by updating an incident that
\* somebody else created, and returned 200
C1_Witness ==
    /\ RaceFound(1)
    /\ response[1] = OK200
    /\ calls[1][2].raised.type = "HTTPError"
    /\ Count(1, "update_incident") = 1

\* C2: after lookup absent, create failed, recheck absent, the create
\* failure itself is what propagates, the request ends in failure and update
\* is never called.
C2_GenuineCreateFailure ==
    (/\ NotResolvedBatch(1)
     /\ LookupAbsent(1, 1)
     /\ CreateFailed(1, 2)
     /\ LookupAbsent(1, 3))
       => /\ raised[1] = calls[1][2].raised
          /\ raised[1].op = "create_incident"
          /\ response[1].code = 500
          /\ Count(1, "update_incident") = 0
          /\ Len(calls[1]) = 3

C2_Witness ==
    /\ NotResolvedBatch(1)
    /\ LookupAbsent(1, 1)
    /\ CreateFailed(1, 2)
    /\ LookupAbsent(1, 3)
    /\ response[1] = Response("Internal server error", 500)

\* C3: with a batch not marked resolved and no incident found, create is
\* called exactly once for the batch's page and component with the status,
\* impact and component status aggregated from the batch; when it succeeds
\* there is no update, no resolve and no second lookup, and the request
\* ends in success.
C3_CreateTransition ==
    (NotResolvedBatch(1) /\ LookupAbsent(1, 1))
       => /\ Count(1, "create_incident") = 1
          /\ calls[1][2].op = "create_incident"
          /\ CarriesSnapshot(1, calls[1][2])
          /\ RequestCarries(calls[1][2])
          /\ calls[1][2].request.json.incident.component_ids
                = <<locals[1].component_id>>
          /\ calls[1][2].request.url = <<"pages", locals[1].page_id, "incidents.json">>
          /\ (locals[1].alerts = <<FiringMinor>>) =>
                /\ calls[1][2].kwargs.status = "identified"
                /\ calls[1][2].kwargs.impact_override = "minor"
                /\ calls[1][2].kwargs.component_status = "degraded_performance"
          /\ calls[1][2].raised = NoError =>
                /\ Len(calls[1]) = 2
                /\ response[1] = OK200

\* the incident was created from a batch of one firing alert
C3_Witness ==
    /\ NotResolvedBatch(1)
    /\ LookupAbsent(1, 1)
    /\ Len(calls[1]) = 2
    /\ calls[1][2].raised = NoError
    /\ locals[1].alerts = <<FiringMinor>>
    /\ response[1] = OK200

\* C4: with a batch not marked resolved and an incident found, update is
\* called exactly once with that incident's id and the snapshot aggregated
\* from the batch, and create is never called.
C4_UpdateTransition ==
    (NotResolvedBatch(1) /\ LookupPresent(1, 1))
       => /\ Count(1, "update_incident") = 1
          /\ Len(calls[1]) = 2
          /\ calls[1][2].op = "update_incident"
          /\ calls[1][2].kwargs.incident_id = calls[1][1].returned.id
          /\ CarriesSnapshot(1, calls[1][2])
          /\ RequestCarries(calls[1][2])
          /\ (locals[1].alerts = <<FiringMinor, FiringCritical>>) =>
                /\ calls[1][2].kwargs.impact_override = "critical"
                /\ calls[1][2].kwargs.component_status = "major_outage"
          /\ (locals[1].alerts = <<FiringMinor, ResolvedCritical>>) =>
                /\ calls[1][2].kwargs.impact_override = "critical"
                /\ calls[1][2].kwargs.component_status = "degraded_performance"
          /\ Count(1, "create_incident") = 0

\* an incident was escalated by a batch of a minor and a critical alert
C4_Witness ==
    /\ NotResolvedBatch(1)
    /\ LookupPresent(1, 1)
    /\ locals[1].alerts = <<FiringMinor, FiringCritical>>
    /\ Len(calls[1]) = 2
    /\ calls[1][2].raised = NoError

\* C5: with a batch marked resolved and an incident found, resolve is called
\* exactly once with that incident's id and the batch's page and component
\* ids, its request sets the incident's status to resolved and the
\* component to operational, and neither create nor update is called.
C5_ResolveTransition ==
    (ResolvedBatch(1) /\ LookupPresent(1, 1))
       => /\ Count(1, "resolve_incident") = 1
          /\ Len(calls[1]) = 2
          /\ calls[1][2].op = "resolve_incident"
          /\ calls[1][2].kwargs.incident_id = calls[1][1].returned.id
          /\ calls[1][2].kwargs.page_id = locals[1].page_id
          /\ calls[1][2].kwargs.component_id = locals[1].component_id
          /\ calls[1][2].request.method = "PATCH"
          /\ calls[1][2].request.url
                = <<"pages", locals[1].page_id, "incidents",
                    calls[1][1].returned.id, ".json">>
          /\ Get(calls[1][2].request.json.incident, "status", None) = "resolved"
          /\ Get(Get(calls[1][2].request.json.incident, "components", EmptyDict),
                 locals[1].component_id, None) = "operational"
          /\ Count(1, "create_incident") = 0
          /\ Count(1, "update_incident") = 0

\* an incident was resolved, and the store shows it resolved
C5_Witness ==
    /\ ResolvedBatch(1)
    /\ LookupPresent(1, 1)
    /\ Count(1, "resolve_incident") = 1
    /\ response[1] = OK200
    /\ \E j \in DOMAIN incidents :
          /\ incidents[j].id = calls[1][1].returned.id
          /\ incidents[j].status = "resolved"

\* C6: with a batch marked resolved and no incident found, no create, update
\* or resolve call is made, whatever the alerts of the batch, and the request
\* ends in success (200).
C6_NoOpResolve ==
    (ResolvedBatch(1) /\ LookupAbsent(1, 1))
       => /\ Len(calls[1]) = 1
          /\ response[1] = OK200
          /\ raised[1] = NoError

\* a resolved batch that still holds a firing alert found nothing to resolve
C6_Witness ==
    /\ ResolvedBatch(1)
    /\ LookupAbsent(1, 1)
    /\ \E i \in DOMAIN locals[1].alerts : IsFiring(locals[1].alerts[i])
    /\ response[1] = OK200

-----------------------------------------------------------------------------
(* No retry beyond the one recheck *)

IsLookup(c) == c.op = "find_incident_for_component"

\* a create call of the request failed before its n-th call
CreateFailedBefore(p, n) ==
    \E m \in 1..(n - 1) :
        calls[p][m].op = "create_incident" /\ calls[p][m].raised /= NoError

\* C11: in one reconciliation, whatever the store returns or fails with,
\* create is called at most once, update at most once, resolve at most once
\* and lookup at most twice, and a second lookup happens only after a create
\* call of the same reconciliation has failed.
C11_NoRetry ==
    /\ Count(1, "create_incident") <= 1
    /\ Count(1, "update_incident") <= 1
    /\ Count(1, "resolve_incident") <= 1
    /\ Count(1, "find_incident_for_component") <= 2
    /\ \A n \in DOMAIN calls[1] :
          (n > 1 /\ IsLookup(calls[1][n])) => CreateFailedBefore(1, n)

\* a request that looked up twice, and whose last call failed as well
C11_Witness ==
    /\ Done(1)
    /\ Count(1, "find_incident_for_component") = 2
    /\ calls[1][Len(calls[1])].raised /= NoError
    /\ response[1].code = 500

-----------------------------------------------------------------------------
(* Requests served one after the other *)

SameKey(p) ==
    /\ previous.page_id = locals[p].page_id
    /\ previous.component_id = locals[p].component_id

\* the request before this one was a resolved batch for the same key that
\* ended in success, and this one is a resolved batch too
FurtherResolved(p) ==
    /\ previous.status = "resolved"
    /\ previous.code = 200
    /\ pc[p] /= "idle"
    /\ locals[p].status = "resolved"
    /\ SameKey(p)

\* C12: once a resolved-batch reconciliation for a key has succeeded, a
\* further resolved-batch reconciliation for the same key, with nothing in
\* between, makes no create, update or resolve call, and when its lookup
\* has answered it ends in success (200) without an error.
C12_ResolveIdempotent ==
    FurtherResolved(1) =>
        /\ \A n \in DOMAIN calls[1] : IsLookup(calls[1][n])
        /\ Len(calls[1]) <= 1
        /\ pc[1] \in {"find", "done"}
        /\ (Done(1) /\ LookupReturned(1, 1)) =>
              (response[1] = OK200 /\ raised[1] = NoError)

\* an incident was resolved, and the resolved batch that came next for the
\* same key found nothing to resolve and ended in success
C12_Witness ==
    /\ FurtherResolved(1)
    /\ previous.ops = <<"find_incident_for_component", "resolve_incident">>
    /\ Done(1)
    /\ LookupAbsent(1, 1)
    /\ response[1] = OK200

-----------------------------------------------------------------------------
(* The default of the status hint *)

StatusHintAbsent(a) == ~HasHint(a, "statuspageStatus")

StatusHintUnrecognized(a) ==
    /\ HasHint(a, "statuspageStatus")
    /\ Lower(a["annotations"]["statuspageStatus"]) \notin Range(STATUS_ORDER)

NotBelowIdentified(s) ==
    Rank(STATUS_ORDER, s) >= Rank(STATUS_ORDER, "identified")

\* C13 as stated: the aggregated workflow status of a batch that holds an
\* alert whose status hint is absent or unrecognized is never ranked below
\* identified.
C13_AbsentOrUnrecognizedCountsAsIdentified ==
    (/\ severity /= NoSeverity
     /\ \E i \in DOMAIN alerts :
           StatusHintAbsent(alerts[i]) \/ StatusHintUnrecognized(alerts[i]))
       => NotBelowIdentified(severity.status)

\* C13 (as amended): an alert whose status hint is absent counts as
\* identified, so the workflow status of a batch that holds such an alert is
\* never ranked below identified; an unrecognized hint is discarded, and
\* the status is identified when no alert of a non-empty batch carries a
\* recognized hint.
C13_StatusHintDefault ==
    severity /= NoSeverity =>
        /\ (\E i \in DOMAIN alerts : StatusHintAbsent(alerts[i]))
              => NotBelowIdentified(severity.status)
        /\ (/\ alerts /= <<>>
            /\ \A i \in DOMAIN alerts :
                  StatusHintAbsent(alerts[i]) \/ StatusHintUnrecognized(alerts[i]))
              => severity.status = "identified"
        /\ severity.status
              = get_max_by_order(
                    HintsOrDefault(
                        SelectSeq(alerts, LAMBDA a : ~StatusHintUnrecognized(a)),
                        "statuspageStatus", "identified"),
                    STATUS_ORDER, "identified")

\* an alert without a status hint lifted a batch with an investigating
\* alert to identified
C13_Witness ==
    /\ severity /= NoSeverity
    /\ severity.status = "identified"
    /\ \E i \in DOMAIN alerts : StatusHintAbsent(alerts[i])
    /\ \E i \in DOMAIN alerts :
          /\ HasHint(alerts[i], "statuspageStatus")
          /\ alerts[i]["annotations"]["statuspageStatus"] = "investigating"

-----------------------------------------------------------------------------
(* The summary of a batch, stated without the loop *)

Fallback == <<"Service experiencing issues">>

\* the non-empty summary texts of the firing alerts, in batch order
FiringSummaries(as) ==
    SelectSeq(HintsOf(FiringPart(as), "statuspageSummary"), Truthy)

\* the lines of a joined text
Lines(joined) == [i \in 1..((Len(joined) + 1) \div 2) |-> joined[2 * i - 1]]

FirstAt(texts, x) ==
    CHOOSE i \in DOMAIN texts :
        texts[i] = x /\ \A j \in 1..(i - 1) : texts[j] /= x

\* joined holds each distinct text once, at the place of its first
\* occurrence, with a newline between two lines
IsJoinOfDistinct(texts, joined) ==
    LET L == Lines(joined) IN
    /\ Len(joined) = 2 * Len(L) - 1
    /\ \A i \in DOMAIN joined : (i % 2 = 0) => joined[i] = "\n"
    /\ Range(L) = Range(texts)
    /\ \A i, j \in DOMAIN L :
          i < j => /\ L[i] /= L[j]
                   /\ FirstAt(texts, L[i]) < FirstAt(texts, L[j])

\* C14 as stated, its last part: build_summary returns the fallback exactly
\* when no firing alert has a non-empty summary.
C14_FallbackExactlyWhenNoSummary ==
    severity /= NoSeverity =>
        (summary = Fallback <=> FiringSummaries(alerts) = <<>>)

\* C14 (as amended): build_summary returns the non-empty summary texts of
\* the firing alerts only, in batch order, each distinct text once at the
\* place of its first occurrence, joined with newlines, and the fallback
\* whenever no firing alert has a non-empty summary.
C14_SummaryConstruction ==
    severity /= NoSeverity =>
        IF FiringSummaries(alerts) = <<>>
        THEN summary = Fallback
        ELSE IsJoinOfDistinct(FiringSummaries(alerts), summary)

\* three firing alerts, the first and the last with the same summary, and
\* the summary holds two lines
C14_Witness ==
    /\ severity /= NoSeverity
    /\ Len(alerts) = 3
    /\ \A i \in DOMAIN alerts : IsFiring(alerts[i])
    /\ FiringSummaries(alerts) = <<"API slow", "Database down", "API slow">>
    /\ summary = <<"API slow", "\n", "Database down">>

-----------------------------------------------------------------------------
(* The display name of a batch, stated without the loop *)

\* the non-empty component names of the alerts, in batch order
NamesOf(as) == SelectSeq(HintsOf(as, "statuspageComponentName"), Truthy)

\* C15 as stated, its last part: get_component_name returns "Service"
\* exactly when no alert has a non-empty name.
C15_ServiceExactlyWhenNoName ==
    severity /= NoSeverity =>
        (component_name = "Service" <=> NamesOf(alerts) = <<>>)

\* C15 (as amended): get_component_name returns the first non-empty
\* component name in batch order over all alerts, firing or not, and
\* "Service" whenever no alert has a non-empty name.
C15_ComponentName ==
    severity /= NoSeverity =>
        IF NamesOf(alerts) = <<>>
        THEN component_name = "Service"
        ELSE component_name = Head(NamesOf(alerts))

\* the name of a resolved alert won over the name of a later firing alert
C15_Witness ==
    /\ severity /= NoSeverity
    /\ Len(alerts) = 2
    /\ ~IsFiring(alerts[1])
    /\ IsFiring(alerts[2])
    /\ NamesOf(alerts) = <<"Other Name", "Test Component">>
    /\ component_name = "Other Name"

-----------------------------------------------------------------------------
(* The aggregator is total and closed over the vocabularies *)

HintKeys == {"statuspageStatus", "statuspageImpactOverride",
             "statuspageComponentStatus"}

\* the alert carries a hint that is the empty string or is in no order
HasOddHint(a) ==
    \E k \in HintKeys :
        /\ HasHint(a, k)
        /\ Lower(a["annotations"][k])
              \notin Range(STATUS_ORDER) \cup Range(IMPACT_ORDER)
                        \cup Range(COMPONENT_STATUS_ORDER)

\* C16: for every batch, including batches whose hints are absent, empty or
\* unrecognized strings, the aggregation returns a result, and the workflow
\* status it returns is one of the four workflow statuses, the impact one of
\* the five impacts and the component status one of the five component
\* statuses.
C16_TotalAndClosed ==
    /\ severity = NoSeverity => ENABLED Aggregate
    /\ severity /= NoSeverity =>
          /\ severity.status \in Range(STATUS_ORDER)
          /\ severity.impact_override \in Range(IMPACT_ORDER)
          /\ severity.component_status \in Range(COMPONENT_STATUS_ORDER)
          /\ Cardinality(Range(STATUS_ORDER)) = 4
          /\ Cardinality(Range(IMPACT_ORDER)) = 5
          /\ Cardinality(Range(COMPONENT_STATUS_ORDER)) = 5

\* a batch of a firing alert with empty hints and a firing alert with
\* unrecognized hints was aggregated
C16_Witness ==
    /\ severity /= NoSeverity
    /\ Len(alerts) = 2
    /\ \A i \in DOMAIN alerts : IsFiring(alerts[i]) /\ HasOddHint(alerts[i])
    /\ alerts[1] /= alerts[2]
    /\ severity.component_status = "partial_outage"

-----------------------------------------------------------------------------
(* The empty batch *)

\* C17: rank-max of the empty list is the default, for every dimension, so
\* aggregating a batch with no alerts yields workflow status identified,
\* impact none, component status partial_outage, the fallback summary and
\* the component name "Service".
C17_EmptyBatchDefaults ==
    /\ \A d \in Dims, x \in HintValues :
          get_max_by_order(<<>>, OrderOf(d), x) = x
    /\ (severity /= NoSeverity /\ alerts = <<>>) =>
          /\ severity.status = "identified"
          /\ severity.impact_override = "none"
          /\ severity.component_status = "partial_outage"
          /\ summary = <<"Service experiencing issues">>
          /\ component_name = "Service"

\* the batch with no alerts was aggregated
C17_Witness ==
    /\ alerts = <<>>
    /\ severity /= NoSeverity
    /\ component_name /= NotCalled

-----------------------------------------------------------------------------
(* The batch-level status alone decides between resolving and not *)

\* a request is being served, or was, and its batch is not marked resolved
ServingNotResolved(p) == pc[p] /= "idle" /\ locals[p].status /= "resolved"

NoneFiring(as) == as /= <<>> /\ \A i \in DOMAIN as : ~IsFiring(as[i])

\* C18: in the reconciliation of a batch that is not marked resolved,
\* resolve is never called, on any path (create, update, race recovery,
\* failure), also when every alert of the batch is itself resolved.
C18_NotResolvedNeverResolves ==
    ServingNotResolved(1) =>
        /\ Count(1, "resolve_incident") = 0
        /\ pc[1] /= "resolve"

\* a batch marked firing whose alerts are all resolved updated the incident
\* that was found
C18_Witness ==
    /\ NotResolvedBatch(1)
    /\ locals[1].status = "firing"
    /\ NoneFiring(locals[1].alerts)
    /\ LookupPresent(1, 1)
    /\ Count(1, "update_incident") = 1
    /\ Count(1, "resolve_incident") = 0

-----------------------------------------------------------------------------
(* Failures of the store *)

FirstLookupFailed(p) ==
    /\ calls[p] /= <<>>
    /\ IsLookup(calls[p][1])
    /\ calls[p][1].raised /= NoError

\* C19: if the first lookup of a reconciliation fails, that failure is what
\* the handler catches, the request ends in failure, and no create, update,
\* resolve or second lookup is made, whether the batch is marked resolved
\* or not.
C19_InitialLookupFailure ==
    FirstLookupFailed(1) =>
        /\ Len(calls[1]) = 1
        /\ Done(1)
        /\ raised[1] = calls[1][1].raised
        /\ raised[1].op = "find_incident_for_component"
        /\ response[1].code = 500

\* the lookup of a resolved batch timed out
C19_Witness ==
    /\ FirstLookupFailed(1)
    /\ ResolvedBatch(1)
    /\ raised[1].type = "Timeout"
    /\ response[1] = Response("Internal server error", 500)

StoreOps == {"find_incident_for_component", "create_incident",
             "update_incident", "resolve_incident"}

\* a failure of a store call went out of the reconciliation
StoreFailurePropagated(p) ==
    Done(p) /\ raised[p] /= NoError /\ raised[p].op \in StoreOps

\* C20: every store failure that propagates out of a reconciliation (from
\* lookup, from create with no racing incident, from update or from resolve)
\* is answered with HTTP 500 and the error text "Internal server error", and
\* HTTP 200 is returned only when no failure propagated.
C20_FailureSignal ==
    /\ StoreFailurePropagated(1) =>
          response[1] = Response("Internal server error", 500)
    /\ (Done(1) /\ response[1].code = 200) => raised[1] = NoError

-----------------------------------------------------------------------------
(* Validation *)

KeyMissing(p) ==
    ~Truthy(locals[p].page_id) \/ ~Truthy(locals[p].component_id)

\* C21: a batch whose page_id or component_id is missing or empty is
\* rejected with HTTP 400, and no lookup, create, update or resolve call is
\* made for it.
C21_ValidationPrecedesCalls ==
    (pc[1] /= "idle" /\ KeyMissing(1)) =>
        /\ Done(1)
        /\ response[1].code = 400
        /\ calls[1] = <<>>

\* a batch with an empty page id was rejected
C21_Witness ==
    /\ Done(1)
    /\ locals[1].page_id = ""
    /\ Truthy(locals[1].component_id)
    /\ response[1] = Response("Missing required group labels", 400)
    /\ calls[1] = <<>>

-----------------------------------------------------------------------------
(* The lookup, stated without the loop *)

\* the incident lists the component among its components
ListsComponent(inc, c) ==
    /\ "components" \in DOMAIN inc
    /\ \E j \in DOMAIN inc["components"] :
          /\ "id" \in DOMAIN inc["components"][j]
          /\ inc["components"][j]["id"] = c

Matches(incs, c) == {i \in DOMAIN incs : ListsComponent(incs[i], c)}

\* C23: find_incident_for_component returns the first incident, in the
\* order of the unresolved-incident list, whose components include the
\* given component id, and returns absent exactly when no unresolved
\* incident lists that component; incidents with no components field are
\* skipped without error.
C23_LookupResult ==
    /\ ~found.called => ENABLED Find
    /\ found.called =>
          LET M == Matches(unresolved, wanted) IN
          /\ M /= {} =>
                /\ found.incident \in {unresolved[i] : i \in M}
                /\ \A i \in M :
                      unresolved[i] = found.incident =>
                          \A j \in M : i <= j
          /\ (found.incident = EmptyDict) <=> (M = {})

\* the lookup skipped an incident with no components field and returned the
\* next one, which lists the component after another one
C23_Witness ==
    /\ found.called
    /\ Len(unresolved) = 2
    /\ "components" \notin DOMAIN unresolved[1]
    /\ ListsComponent(unresolved[2], wanted)
    /\ Len(unresolved[2]["components"]) = 2
    /\ found.incident = unresolved[2]

-----------------------------------------------------------------------------
(* Failures inside the race recovery *)

\* the create of the request failed after a lookup that found nothing, and
\* the recheck was made
Rechecked(p) ==
    /\ NotResolvedBatch(p)
    /\ LookupAbsent(p, 1)
    /\ CreateFailed(p, 2)
    /\ Len(calls[p]) >= 3
    /\ IsLookup(calls[p][3])

RecheckFailed(p) == Rechecked(p) /\ calls[p][3].raised /= NoError

RecoveryUpdateFailed(p) ==
    /\ Rechecked(p)
    /\ LookupPresent(p, 3)
    /\ Len(calls[p]) >= 4
    /\ calls[p][4].raised /= NoError

\* C24: after a failed create, if the recheck itself fails, or the recheck
\* finds an incident but the recovery update fails, the reconciliation ends
\* in failure with that lookup or update failure, no further store call is
\* made, and the outcome is never reported as success.
C24_RecoveryFailuresSurface ==
    /\ RecheckFailed(1) =>
          /\ Len(calls[1]) = 3
          /\ raised[1] = calls[1][3].raised
          /\ raised[1].op = "find_incident_for_component"
          /\ response[1].code = 500
    /\ RecoveryUpdateFailed(1) =>
          /\ Len(calls[1]) = 4
          /\ calls[1][4].op = "update_incident"
          /\ raised[1] = calls[1][4].raised
          /\ raised[1].op = "update_incident"
          /\ response[1].code = 500

\* the create failed and so did the recheck: the request ended with the
\* failure of the recheck, not the one of the create
C24_Witness ==
    /\ RecheckFailed(1)
    /\ calls[1][2].raised.type = "Timeout"
    /\ raised[1].type = "HTTPError"
    /\ response[1] = Response("Internal server error", 500)

-----------------------------------------------------------------------------
(* One open incident per component *)

\* the incidents of the store that are unresolved and affect the component
OpenFor(c) ==
    {i \in DOMAIN incidents :
        /\ incidents[i].status /= "resolved"
        /\ ListsComponent(incidents[i], c)}

ResolvedFor(c) ==
    {i \in DOMAIN incidents :
        /\ incidents[i].status = "resolved"
        /\ ListsComponent(incidents[i], c)}

\* C27: when the reconciliations run one after the other against a store
\* whose lookup reflects every earlier create and resolve, there is never
\* more than one unresolved incident for a component, after any sequence of
\* resolved and non-resolved batches.
C27_AtMostOneOpenIncident ==
    \A c \in {"comp-456", "comp-other"} : Cardinality(OpenFor(c)) <= 1

\* an incident was created, resolved, and a new one created for the same
\* component
C27_Witness ==
    /\ Cardinality(OpenFor("comp-456")) = 1
    /\ Cardinality(ResolvedFor("comp-456")) = 1
    /\ previous.status = "firing"
    /\ previous.ops = <<"find_incident_for_component", "create_incident">>
    /\ previous.code = 200

-----------------------------------------------------------------------------
(* Calls that set the workflow status to resolved *)

IsWrite(c) == c.op \in {"create_incident", "update_incident"}

\* the component health the request of a call sets for the component
HealthSet(c) ==
    Get(Get(c.request.json.incident, "components", EmptyDict),
        c.kwargs.component_id, None)

SetsResolved(c) == Get(c.request.json.incident, "status", None) = "resolved"

\* some alert of the batch carries the status hint resolved
HintsResolved(as) ==
    \E i \in DOMAIN as :
        /\ HasHint(as[i], "statuspageStatus")
        /\ Lower(as[i]["annotations"]["statuspageStatus"]) = "resolved"

-----------------------------------------------------------------------------
(* A reconciliation touches the incident of its own component only *)

\* the last lookup of the request before its n-th call
LastLookupBefore(p, n) ==
    CHOOSE m \in 0..(n - 1) :
        /\ m > 0 => IsLookup(calls[p][m])
        /\ \A k \in (m + 1)..(n - 1) : ~IsLookup(calls[p][k])

C29_CallsTargetOwnIncident ==
    \A n \in DOMAIN calls[1] :
        LET c == calls[1][n]
            m == LastLookupBefore(1, n)
        IN /\ c.op \in {"update_incident", "resolve_incident"} =>
                /\ m > 0
                /\ calls[1][m].raised = NoError
                /\ calls[1][m].kwargs
                      = [page_id |-> locals[1].page_id,
                         component_id |-> locals[1].component_id]
                /\ ListsComponent(calls[1][m].returned, locals[1].component_id)
                /\ c.kwargs.incident_id = calls[1][m].returned.id
                /\ c.request.url[4] = calls[1][m].returned.id
                /\ c.kwargs.component_id = locals[1].component_id
           /\ c.op = "create_incident" =>
                /\ c.request.json.incident.component_ids
                      = <<locals[1].component_id>>
                /\ DOMAIN c.request.json.incident.components
                      = {locals[1].component_id}

\* a step keeps every incident that does not affect the component of the
\* request, and what it adds affects that component only
KeepsOthers ==
    /\ \A i \in DOMAIN incidents :
          /\ i \in DOMAIN incidents'
          /\ ~ListsComponent(incidents[i], locals[1].component_id)
                => incidents'[i] = incidents[i]
    /\ \A j \in DOMAIN incidents' \ DOMAIN incidents :
          incidents'[j].components = <<[id |-> locals[1].component_id]>>

C29_OthersUnchanged == [][KeepsOthers]_vars

\* C29: every update or resolve call targets the incident id that the most
\* recent lookup of the same reconciliation returned for the batch's page
\* and component, every created incident lists the batch's component as
\* its only component, and the incidents that do not affect that component
\* are left unchanged.
C29_OwnComponentOnly == []C29_CallsTargetOwnIncident /\ C29_OthersUnchanged

\* the incident of one component was resolved while the open incident of
\* the other component stayed as it was
C29_Witness ==
    /\ ResolvedBatch(1)
    /\ locals[1].component_id = "comp-456"
    /\ Count(1, "resolve_incident") = 1
    /\ response[1] = OK200
    /\ incidents[1] = OtherIncident
    /\ Cardinality(ResolvedFor("comp-456")) = 1

-----------------------------------------------------------------------------
(* A batch that is not resolved and holds no firing alert *)

NoFiringAlert(as) == \A i \in DOMAIN as : ~IsFiring(as[i])

\* C30: when the batch is not marked resolved and holds no alert, or only
\* alerts that are themselves resolved, the reconciliation creates (no
\* incident found) or updates (incident found), and sends the default
\* component status partial_outage and the fallback summary, whatever
\* component status the resolved alerts carry.
C30_NoFiringStillReconciles ==
    (/\ NotResolvedBatch(1)
     /\ NoFiringAlert(locals[1].alerts)
     /\ LookupReturned(1, 1))
       => /\ Len(calls[1]) >= 2
          /\ calls[1][2].op = IF LookupPresent(1, 1) THEN "update_incident"
                               ELSE "create_incident"
          /\ calls[1][2].kwargs.component_status = "partial_outage"
          /\ HealthSet(calls[1][2]) = "partial_outage"
          /\ calls[1][2].kwargs.body = <<"Service experiencing issues">>
          /\ calls[1][2].request.json.incident.body
                = <<"Service experiencing issues">>

\* a batch marked firing whose only alert is resolved and carries
\* major_outage updated the incident with partial_outage
C30_Witness ==
    /\ NotResolvedBatch(1)
    /\ locals[1].status = "firing"
    /\ locals[1].alerts = <<ResolvedCritical>>
    /\ LookupPresent(1, 1)
    /\ calls[1][2].op = "update_incident"
    /\ calls[1][2].kwargs.component_status = "partial_outage"
    /\ response[1] = OK200

-----------------------------------------------------------------------------
(* Two requests for the same component in flight *)

\* the request of p looked up no incident and its create returned
CreatedAfterAbsent(p) ==
    /\ NotResolvedBatch(p)
    /\ LookupAbsent(p, 1)
    /\ Len(calls[p]) = 2
    /\ calls[p][2].op = "create_incident"
    /\ calls[p][2].raised = NoError
    /\ response[p] = OK200

\* C22: two concurrent reconciliations of batches that are not resolved, for
\* the same component, that both looked up no incident both call create,
\* and when both creates return, two unresolved incidents for the component
\* exist.
C22_ResidualCreateRace ==
    /\ (NotResolvedBatch(1) /\ NotResolvedBatch(2)
          /\ LookupAbsent(1, 1) /\ LookupAbsent(2, 1))
          => \A p \in Handlers : /\ Len(calls[p]) >= 2
                                 /\ calls[p][2].op = "create_incident"
    /\ (CreatedAfterAbsent(1) /\ CreatedAfterAbsent(2))
          => Cardinality(OpenFor("comp-456")) = 2

\* both requests were answered 200 and left an unresolved incident each
C22_Witness ==
    /\ CreatedAfterAbsent(1)
    /\ CreatedAfterAbsent(2)
    /\ locals[1].component_id = locals[2].component_id
    /\ Cardinality(OpenFor("comp-456")) = 2

-----------------------------------------------------------------------------
(* Updates and the state of the incident they reach *)

IsResolvedInStore(incident_id) ==
    \E j \in DOMAIN incidents :
        incidents[j].id = incident_id /\ incidents[j].status = "resolved"

\* the step is an update call of p that the store answered, for an incident
\* that was resolved when the call reached the store
StaleUpdate(p) ==
    /\ Len(calls'[p]) = Len(calls[p]) + 1
    /\ calls'[p][Len(calls'[p])].op = "update_incident"
    /\ calls'[p][Len(calls'[p])].raised = NoError
    /\ IsResolvedInStore(calls'[p][Len(calls'[p])].kwargs.incident_id)

NoStaleUpdate == ~StaleUpdate(1) /\ ~StaleUpdate(2)

\* C26: under every interleaving of concurrent reconciliations for the same
\* key, an update call is applied only to an incident that is unresolved at
\* the moment the store applies it: a reconciliation that looked the
\* incident up before a concurrent resolved batch resolved it does not
\* afterwards update that incident.
C26_NoStaleUpdateAfterResolve == [][NoStaleUpdate]_vars

-----------------------------------------------------------------------------
(* Race recovery against a store that rejects the second create *)

\* the create of p was rejected, its recheck found the incident of the other
\* request and its update returned
RecoveredFromRace(p) ==
    /\ RaceFound(p)
    /\ Len(calls[p]) = 4
    /\ calls[p][4].op = "update_incident"
    /\ calls[p][4].raised = NoError
    /\ response[p] = OK200

=============================================================================
